---- MODULE Spec2Model ----
(***************************************************************************)
(* A model of the bot identity service of tbot                             *)
(* (lib/tbot/internal/identity/service.go): loading the persisted          *)
(* identity, the renew-or-join decision of Initialize, the issuance         *)
(* functions, the renewal cycle, the readiness gate and the Facade.        *)
(***************************************************************************)
EXTENDS Integers, Sequences, FiniteSets, TLC

\* ------------------------------------------------------------------ bounds
\* The clock runs over 0..MaxTime.
MaxTime == 3
\* Private keys are numbered 1..MaxKeys in order of generation.
MaxKeys == 3

\* Process restarts in the restart scenario.
MaxRestarts == 1
\* Renewal cycles counted in one Run (the retries of a failed cycle of the
\* steady-state loop are not counted).
MaxCycles == 2
\* Concurrent readers of the identity.
NumReaders == 2
\* Goroutines using the readiness gate, and the calls each may make.
NumThreads == 2
MaxOps == 2

\* The attempts the retry of Run counts.
MaxAttempts == 8

\* The calls made on one ageWriter.
MaxCalls == 4

\* cfg.TTL, in clock ticks.
TTL == 2

\* The number of permissible consecutive failures in renewing the bot
\* identity before the loop exits fatally.
botIdentityRenewalRetryLimit == 7

\* ------------------------------------------------------------- data model
\* An identity: its private key, the validity window of its X.509
\* certificate, the token hash it carries and whether its TLS identity is
\* renewable.  Nil stands for a nil *identity.Identity; real keys are >= 1.
Nil == [key |-> 0, nb |-> 0, na |-> 0, hash |-> "", renewable |-> FALSE]

Ident(k, nb, na, h, r) == [key |-> k, nb |-> nb, na |-> na, hash |-> h, renewable |-> r]

\* Onboarding tokens; "" is "no token configured".
Tokens == {"tok-A", "tok-B"}
TokenCfgs == {""} \cup Tokens

\* Join methods: "token" yields renewable certificates, the others are
\* delegated methods renewed by re-running the join.
JoinMethods == {"token", "iam", "bound_keypair"}

\* hex.EncodeToString(sha256.Sum256(token)): an injective map from tokens
\* to non-empty strings (also of the empty token).
Sha256Hex(t) ==
  CASE t = "tok-A" -> "sha-A"
    [] t = "tok-B" -> "sha-B"
    [] OTHER -> "sha-empty"

\* time.Time.After / time.Time.Before
After(t, u) == t > u
Before(t, u) == t < u

VARIABLES
  now,          \* the wall clock
  faulty,       \* the store, the network and the authority may fail
  timed,        \* the behaviour records the timers of the startup retry loop
  joinSecret,   \* cfg.Onboarding.BoundKeypair.RegistrationSecret is not empty
  tokenCfg,     \* cfg.Onboarding token ("" = none)
  joinMethod,   \* cfg.Onboarding.JoinMethod
  storeIdent,   \* the identity persisted in cfg.Destination (Nil = absent)
  bkpState,     \* version of the bound keypair client state in the destination
  pc,           \* position of the engine task
  stack,        \* return labels of the calls in progress
  loadedIdent,  \* Initialize: loadedIdent
  valid,        \* Initialize: valid
  loadInfo,     \* what the load saw: LoadIdentity outcome, token read, clock
  oldIdentity,  \* renewIdentity: oldIdentity
  authClient,   \* renewIdentity: identity authClient authenticates as (Nil = none)
  connOpen,     \* renewIdentity: authClient is open
  bftClient,    \* botIdentityFromToken: authClient parameter (Nil = nil)
  boundKeypairState, \* botIdentityFromToken: the client state it joins with
  regResult,    \* botIdentityFromToken: result of join.Register
  genKey,       \* botIdentityFromAuth: the key just generated
  renewInfo,    \* what the current call of renew / renewIdentity saw and did
  retIdent,     \* identity returned by the last call
  err,          \* error returned by the last call ("" = nil)
  newIdentity,  \* Initialize / renew: newIdentity
  facade,       \* identity held by s.facade (Nil = s.facade is nil)
  installed,    \* the identities given to NewFacade or Set of s.facade
  client,       \* s.client: "" = nil, else the identity source it was built on
  facadePtr,    \* the Facade object s.facade points to: 0 = nil
  clientFacade, \* the Facade object the client in s.client wraps: 0 = none
  initialized,  \* s.initialized: 0 = nil, else a channel id
  closed,       \* set of closed channel ids
  onceDone,     \* s.initializedOnce has run
  panicked,     \* a goroutine has panicked (close of a closed or nil channel)
  healthy,      \* StatusReporter has been told Healthy
  nextKey,      \* the next private key to be generated
  reqs,         \* requests sent to the authority by this process
  path,         \* the branch Initialize took
  result,       \* what Initialize returned ("" = still running)
  history,      \* every identity issued so far, in order, with how it was issued
  restarts,     \* how many times the process has been restarted
  prev,         \* the previous process: its token, what Initialize returned
  ctxDone,      \* the context of Run has been cancelled
  cycles,       \* renewal cycles started by Run
  failures,     \* RunOnInterval: consecutive failed attempts
  renewErr,     \* what the last renew returned ("" = nil)
  runResult,    \* what Run returned ("" = has not returned)
  attempt,      \* the attempt counter of Run's retry (0 = no retry in scope)
  wait,         \* the timer of the retry loop's current wait, in milliseconds
  mu,           \* holder of s.mu (0 = free)
  rpc,          \* position of each reader of the identity
  got,          \* the identity each reader last obtained
  tpc,          \* position of each goroutine using the readiness gate
  tops,         \* operations each of them has started
  tch,          \* the channel Ready() returned to each of them
  isReadyLog,   \* results of the completed IsReady calls, in order
  ns,           \* a call of NewService: its configuration and what it returned
  db,           \* a DatabaseTunnelService in buildLocalProxyConfig
  age           \* an ageWriter and the calls made on it

vars == <<now, faulty, timed, joinSecret, boundKeypairState, tokenCfg, joinMethod, storeIdent, bkpState, pc, stack,
          loadedIdent, valid, loadInfo, oldIdentity, authClient, connOpen,
          bftClient, regResult, genKey, renewInfo, retIdent, err, newIdentity, facade,
          installed, client, facadePtr, clientFacade, initialized, closed, onceDone, panicked, healthy, nextKey,
          reqs, path, result, history, restarts, prev, ctxDone, cycles, failures,
          renewErr, runResult, attempt, wait, mu, rpc, got, tpc, tops, tch, isReadyLog,
          ns, db, age>>

\* The configuration, and the state of the environment with it.
cfgVars == <<tokenCfg, joinMethod, faulty, timed, joinSecret>>
gateVars == <<initialized, closed, onceDone, panicked>>
svcVars == <<facade, installed, client, facadePtr, clientFacade>>

\* identity.NewFacade: an object that s.facade does not point to yet.
NewFacade == facadePtr + 1
loadVars == <<loadedIdent, valid, loadInfo>>
callVars == <<oldIdentity, authClient, connOpen, bftClient, regResult, genKey,
              renewInfo>>
procVars == <<restarts, prev>>
\* The components modelled beside the engine.
sideVars == <<ns, db, age>>
retryVars == <<attempt, wait>>
runVars == <<ctxDone, cycles, failures, renewErr, runResult>>
readerVars == <<rpc, got>>
threadVars == <<tpc, tops, tch, isReadyLog>>
\* What the engine task's steps leave alone.
otherVars == <<sideVars, boundKeypairState, procVars, retryVars, runVars, mu, readerVars, threadVars>>

\* ------------------------------------------------- loadIdentityFromStore
\* cfg.Onboarding.HasToken()
HasToken == tokenCfg # ""

\* Mutant: the comparison without its negation.
hasTokenChanged_equal(configTokenBytes, identityBytes) ==
  IF configTokenBytes = "" \/ identityBytes = ""
    THEN FALSE
    ELSE identityBytes = configTokenBytes

\* Mutant: only the second byte string is tested for emptiness.
hasTokenChanged_oneSided(configTokenBytes, identityBytes) ==
  IF identityBytes = ""
    THEN FALSE
    ELSE identityBytes # configTokenBytes

hasTokenChanged(configTokenBytes, identityBytes) ==
  IF configTokenBytes = "" \/ identityBytes = ""
    THEN FALSE
    ELSE identityBytes # configTokenBytes

\* Mutant: the upper bound of the validity window taken as exclusive.
ValidFlag_exclusive(ident, t) ==
  IF t >= ident.na THEN FALSE
  ELSE IF Before(t, ident.nb) THEN FALSE
  ELSE TRUE

\* The validity flag of a loaded identity at clock reading t.
ValidFlag(ident, t) ==
  IF After(t, ident.na) THEN FALSE
  ELSE IF Before(t, ident.nb) THEN FALSE
  ELSE TRUE

\* identity.LoadIdentity: NotFound on an empty store, the identity
\* otherwise; any read may also fail with another error.
LoadOutcomes == IF storeIdent = Nil THEN {"notfound", "error"} ELSE {"ok", "error"}

\* cfg.Onboarding.Token() as called while loading: only when the load
\* succeeded and a token is configured.
TokenReads(lo) == IF lo = "ok" /\ HasToken THEN {"ok", "err"} ELSE {"n/a"}

\* Mutant: a load that failed with an error other than NotFound still hands
\* the stored identity on, as not valid.
loadIdentityFromStore_keepsOnError(lo, tk) ==
  IF lo = "notfound" THEN <<Nil, FALSE>>
  ELSE IF lo = "error" THEN <<storeIdent, FALSE>>
  ELSE IF HasToken /\ tk = "ok"
          /\ hasTokenChanged(storeIdent.hash, Sha256Hex(tokenCfg))
    THEN <<Nil, FALSE>>
  ELSE <<storeIdent, ValidFlag(storeIdent, now)>>

\* Mutant: a token that cannot be read counts as a changed token.
loadIdentityFromStore_dropsOnTokenError(lo, tk) ==
  IF lo # "ok" THEN <<Nil, FALSE>>
  ELSE IF HasToken
          /\ (tk = "err" \/ hasTokenChanged(storeIdent.hash, Sha256Hex(tokenCfg)))
    THEN <<Nil, FALSE>>
  ELSE <<storeIdent, ValidFlag(storeIdent, now)>>

\* loadIdentityFromStore: <<identity, valid>> for a LoadIdentity outcome lo
\* and a token read tk.
loadIdentityFromStore(lo, tk) ==
  IF lo # "ok" THEN <<Nil, FALSE>>
  ELSE IF HasToken /\ tk = "ok"
          /\ hasTokenChanged(storeIdent.hash, Sha256Hex(tokenCfg))
    THEN <<Nil, FALSE>>
  ELSE <<storeIdent, ValidFlag(storeIdent, now)>>

\* ------------------------------------------------------------ call glue
Call(label, ret) ==
  /\ pc' = label
  /\ stack' = <<ret>> \o stack

Return(ident, e) ==
  /\ retIdent' = ident
  /\ err' = e
  /\ pc' = Head(stack)
  /\ stack' = Tail(stack)

\* An entry of the history: the identity, "join" (Register) or "auth"
\* (GenerateUserCerts), and the identity that authenticated the request.
Issued(ident, via, from) == [ident |-> ident, via |-> via, from |-> from]

\* What the authority owes while the environment is sound: it accepts a
\* request authenticated by an identity that has not expired, and a join
\* authenticated by the configured token alone.  Any other request it is
\* free to reject.
MustAccept(c) == IF c = Nil THEN HasToken ELSE ~After(now, c.na)

Request(kind, auth) == [kind |-> kind, auth |-> auth, token |-> tokenCfg]

\* -------------------------------------------------------- unblockWaiters
\* The channel s.initialized after "if s.initialized == nil { make }".
EnsureChan == IF initialized = 0 THEN 1 ELSE initialized

\* Mutant: the channel closed without sync.Once.
OnceClose_everyCall(ch) ==
  /\ onceDone' = TRUE
  /\ closed' = closed \cup {ch}
  /\ panicked' = (panicked \/ ch \in closed)

\* s.initializedOnce.Do(func() { close(s.initialized) }) on channel ch.
OnceClose(ch) ==
  IF onceDone
    THEN UNCHANGED <<closed, onceDone, panicked>>
    ELSE /\ onceDone' = TRUE
         /\ closed' = closed \cup {ch}
         /\ panicked' = (panicked \/ ch \in closed)

\* The body of unblockWaiters, run under s.mu.
unblockWaiters ==
  /\ initialized' = EnsureChan
  /\ OnceClose(EnsureChan)

\* cryptosuites.GenerateKey, and the key generation inside join.Register: a
\* private key that was never generated before.
GenerateKey == nextKey

\* --------------------------------------------------- botIdentityFromToken
\* Lines 664-727: read the token, parse the address.  Nothing is sent and
\* nothing is written.
BftStartOutcomes ==
  IF ~faulty THEN {"ok"} ELSE {"ok", "token_err", "addr_err"}

\* var boundKeypairState *boundkeypair.ClientState, with what
\* LoadClientState returned ("" = not called).
NoClientState == [state |-> "nil", load |-> ""]

\* boundkeypair.LoadClientState on the destination: NotFound when no client
\* state is stored; any read may also fail with another error.
LoadClientState ==
  (IF bkpState = 0 THEN {"notfound"} ELSE {"ok"})
    \cup (IF faulty THEN {"error"} ELSE {})

\* Mutant: an empty client state is made after any failure to load one.
ClientStateAfter_anyError(lo) ==
  IF lo = "ok" THEN "loaded"
  ELSE IF joinSecret THEN "empty"
  ELSE "nil"

\* Lines 731-745: the client state to join with after LoadClientState
\* returned lo, "nil" if the join cannot go on.
ClientStateAfter(lo) ==
  IF lo = "ok" THEN "loaded"
  ELSE IF lo = "notfound" /\ joinSecret THEN "empty"
  ELSE "nil"

\* Lines 664-748: the parameters of the join, with the bound keypair client
\* state loaded for that join method.
BftStart ==
  /\ pc = "bft_start"
  /\ \E o \in BftStartOutcomes :
       IF o # "ok"
         THEN /\ Return(Nil, o)
              /\ boundKeypairState' = NoClientState
         ELSE IF joinMethod # "bound_keypair"
           THEN /\ pc' = "bft_register"
                /\ boundKeypairState' = NoClientState
                /\ UNCHANGED <<stack, retIdent, err>>
           ELSE \E lo \in LoadClientState :
                  /\ boundKeypairState' =
                       [state |-> ClientStateAfter(lo), load |-> lo]
                  /\ IF ClientStateAfter(lo) = "nil"
                       THEN Return(Nil, "bkp_load_err")
                       ELSE /\ pc' = "bft_register"
                            /\ UNCHANGED <<stack, retIdent, err>>
  /\ UNCHANGED <<now, cfgVars, storeIdent, bkpState, loadVars, callVars,
                 newIdentity, svcVars, gateVars, healthy, nextKey, reqs,
                 path, result>>
  /\ UNCHANGED <<history, sideVars, procVars, retryVars, runVars, mu,
                 readerVars, threadVars>>

\* Line 750: join.Register, with params.AuthClient = bftClient.  On success
\* the result carries a freshly generated private key and certificates
\* valid from now for the requested TTL.
BftRegister ==
  /\ pc = "bft_register"
  /\ reqs' = reqs \cup {Request("Register", bftClient)}
  /\ \/ /\ faulty \/ ~MustAccept(bftClient)
        /\ Return(Nil, "register_err")
        /\ UNCHANGED <<regResult, nextKey>>
     \/ /\ nextKey <= MaxKeys
        /\ regResult' = [key |-> GenerateKey, nb |-> now, na |-> now + TTL]
        /\ nextKey' = nextKey + 1
        /\ pc' = "bft_post"
        /\ UNCHANGED <<stack, retIdent, err>>
  /\ UNCHANGED <<now, cfgVars, storeIdent, bkpState, loadVars, oldIdentity,
                 authClient, connOpen, bftClient, genKey, renewInfo, newIdentity,
                 svcVars, gateVars, healthy, path, result>>
  /\ UNCHANGED <<history, otherVars>>

\* Lines 755-781: for bound keypair joining update and store the client
\* state, then assemble the identity with the hash of the token.
BftPostOutcomes ==
  IF ~faulty THEN {"ok"}
  ELSE {"ok", "assemble_err"}
         \cup (IF boundKeypairState.state # "nil"
                 THEN {"bkp_update_err", "bkp_store_err"} ELSE {})

\* Mutant: the identity assembled without the token hash.
BftIdentity_noHash ==
  Ident(regResult.key, regResult.nb, regResult.na, "", joinMethod = "token")

BftIdentity ==
  Ident(regResult.key, regResult.nb, regResult.na, Sha256Hex(tokenCfg),
        joinMethod = "token")

\* Mutant: the identity is returned without the client state being stored.
BftPost_noStore ==
  /\ pc = "bft_post"
  /\ \E o \in BftPostOutcomes :
       /\ bkpState' = bkpState
       /\ IF o = "ok"
            THEN /\ Return(BftIdentity, "")
                 /\ history' = Append(history, Issued(BftIdentity, "join", bftClient))
            ELSE /\ Return(Nil, o)
                 /\ UNCHANGED history
  /\ UNCHANGED <<now, cfgVars, storeIdent, loadVars, callVars, newIdentity,
                 svcVars, gateVars, healthy, nextKey, reqs, path, result>>
  /\ UNCHANGED otherVars

BftPost ==
  /\ pc = "bft_post"
  /\ \E o \in BftPostOutcomes :
       /\ bkpState' = IF boundKeypairState.state # "nil"
                         /\ o \in {"ok", "assemble_err"}
                        THEN bkpState + 1 ELSE bkpState
       /\ IF o = "ok"
            THEN /\ Return(BftIdentity, "")
                 /\ history' = Append(history, Issued(BftIdentity, "join", bftClient))
            ELSE /\ Return(Nil, o)
                 /\ UNCHANGED history
  /\ UNCHANGED <<now, cfgVars, storeIdent, loadVars, callVars, newIdentity,
                 svcVars, gateVars, healthy, nextKey, reqs, path, result>>
  /\ UNCHANGED otherVars

\* ---------------------------------------------------- botIdentityFromAuth
\* Lines 595-621: the nil checks and the generation of a new key.
BfaStart ==
  /\ pc = "bfa_start"
  /\ IF oldIdentity = Nil \/ authClient = Nil
       THEN /\ Return(Nil, "BadParameter")
            /\ UNCHANGED <<genKey, renewInfo, nextKey>>
       ELSE \/ /\ faulty
               /\ Return(Nil, "key_err")
               /\ UNCHANGED <<genKey, renewInfo, nextKey>>
            \/ /\ nextKey <= MaxKeys
               /\ genKey' = GenerateKey
               /\ nextKey' = nextKey + 1
               /\ pc' = "bfa_call"
               /\ UNCHANGED <<stack, retIdent, err, renewInfo>>
  /\ UNCHANGED <<now, cfgVars, storeIdent, bkpState, loadVars, oldIdentity,
                 authClient, connOpen, bftClient, regResult, newIdentity,
                 svcVars, gateVars, healthy, reqs, path, result>>
  /\ UNCHANGED <<history, otherVars>>

\* Mutant: the renewed identity keeps the private key of the old one.
BfaIdentity_oldKey == Ident(oldIdentity.key, now, now + TTL, oldIdentity.hash, TRUE)

\* Mutant: the renewed identity is given the hash of the configured token.
BfaIdentity_rehash == Ident(genKey, now, now + TTL, Sha256Hex(tokenCfg), TRUE)

\* The identity assembled from the new key, the new certificates and the
\* token hash of the identity being renewed.
BfaIdentity == Ident(genKey, now, now + TTL, oldIdentity.hash, TRUE)

BfaCallOutcomes ==
  IF faulty THEN {"ok", "rpc_err", "read_err"}
  ELSE IF MustAccept(authClient) THEN {"ok"}
  ELSE {"ok", "rpc_err"}

\* Lines 625-644: GenerateUserCerts through the authenticated client, then
\* ReadIdentityFromStore.  The key of a failed call is dropped with the
\* call and is not counted against MaxKeys.
BfaCall ==
  /\ pc = "bfa_call"
  /\ reqs' = reqs \cup {Request("GenerateUserCerts", authClient)}
  /\ \E o \in BfaCallOutcomes :
       IF o = "ok"
         THEN /\ Return(BfaIdentity, "")
              /\ history' = Append(history, Issued(BfaIdentity, "auth", oldIdentity))
              /\ UNCHANGED nextKey
         ELSE /\ Return(Nil, o)
              /\ nextKey' = genKey
              /\ UNCHANGED history
  /\ UNCHANGED <<now, cfgVars, storeIdent, bkpState, loadVars, callVars,
                 newIdentity, svcVars, gateVars, healthy, path, result>>
  /\ UNCHANGED otherVars

\* ----------------------------------------------------------- renewIdentity
\* facade.Expiry() of a facade created over ident: the certificate's
\* NotAfter, and ok unless there is no identity.
Expiry(ident) == <<ident.na, ident # Nil>>

\* No call of renew or renewIdentity has been made.
NoRenewal ==
  [verify |-> "", at |-> 0, facade |-> Nil, store |-> Nil, reqs |-> {},
   built |-> FALSE, checkedAt |-> -1, before |-> "", cancelled |-> FALSE]

\* The record of a call that begins now; verify is the outcome of
\* identity.VerifyWrite ("n/a" when renewIdentity is called by Initialize),
\* cancelled whether the context was done before the call had returned.
RenewalBegins(verify) ==
  [verify |-> verify, at |-> now, facade |-> facade, store |-> storeIdent,
   reqs |-> reqs, built |-> FALSE, checkedAt |-> -1,
   before |-> renewInfo.verify, cancelled |-> ctxDone]

\* Lines 526-531: a new client authenticated by oldIdentity.
RiBuild ==
  /\ pc = "ri_build"
  /\ renewInfo' = [renewInfo EXCEPT !.built = TRUE]
  /\ \/ /\ faulty
        /\ Return(Nil, "creating auth client")
        /\ UNCHANGED <<authClient, connOpen>>
     \/ /\ authClient' = oldIdentity
        /\ connOpen' = TRUE
        /\ pc' = "ri_branch"
        /\ UNCHANGED <<stack, retIdent, err>>
  /\ UNCHANGED <<now, cfgVars, storeIdent, bkpState, loadVars, oldIdentity,
                 bftClient, regResult, genKey, newIdentity, svcVars,
                 gateVars, healthy, nextKey, reqs, path, result>>
  /\ UNCHANGED <<history, otherVars>>

\* Mutant: the expiry test is exclusive, an identity is expired from
\* NotAfter on.
RiExpired_atNotAfter ==
  ~Expiry(oldIdentity)[2] \/ ~Before(now, Expiry(oldIdentity)[1])

\* The expiry test of lines 551-552.
RiExpired == ~Expiry(oldIdentity)[2] \/ After(now, Expiry(oldIdentity)[1])

\* Mutant: an expired renewable identity falls back to a join with the
\* token.
RiRenewable_rejoinsWhenExpired ==
  /\ pc = "ri_branch"
  /\ oldIdentity.renewable
  /\ IF RiExpired
       THEN /\ bftClient' = Nil
            /\ Call("bft_start", "ri_ret")
       ELSE /\ Call("bfa_start", "ri_ret")
            /\ UNCHANGED bftClient
  /\ UNCHANGED <<now, cfgVars, storeIdent, bkpState, loadVars, oldIdentity,
                 authClient, connOpen, regResult, genKey, renewInfo,
                 retIdent, err, newIdentity, svcVars, gateVars, healthy,
                 nextKey, reqs, path, result, history, otherVars>>

\* Lines 533-538: a renewable identity is renewed through GenerateUserCerts.
RiRenewable ==
  /\ pc = "ri_branch"
  /\ oldIdentity.renewable
  /\ Call("bfa_start", "ri_ret")
  /\ UNCHANGED <<now, cfgVars, storeIdent, bkpState, loadVars, callVars,
                 retIdent, err, newIdentity, svcVars, gateVars, healthy,
                 nextKey, reqs, path, result>>
  /\ UNCHANGED <<history, otherVars>>

\* Mutant: the join of an expired identity is still authenticated by it.
RiJoinWithoutClient_keepsClient ==
  /\ pc = "ri_branch"
  /\ ~oldIdentity.renewable
  /\ RiExpired
  /\ bftClient' = authClient
  /\ renewInfo' = [renewInfo EXCEPT !.checkedAt = now]
  /\ Call("bft_start", "ri_ret")
  /\ UNCHANGED <<now, cfgVars, storeIdent, bkpState, loadVars, oldIdentity,
                 authClient, connOpen, regResult, genKey, retIdent, err,
                 newIdentity, svcVars, gateVars, healthy, nextKey, reqs,
                 path, result>>
  /\ UNCHANGED <<history, otherVars>>

\* Lines 552-568: an expired identity is not used to authenticate the join.
RiJoinWithoutClient ==
  /\ pc = "ri_branch"
  /\ ~oldIdentity.renewable
  /\ RiExpired
  /\ bftClient' = Nil
  /\ renewInfo' = [renewInfo EXCEPT !.checkedAt = now]
  /\ Call("bft_start", "ri_ret")
  /\ UNCHANGED <<now, cfgVars, storeIdent, bkpState, loadVars, oldIdentity,
                 authClient, connOpen, regResult, genKey, retIdent, err,
                 newIdentity, svcVars, gateVars, healthy, nextKey, reqs,
                 path, result>>
  /\ UNCHANGED <<history, otherVars>>

\* Line 575: lightweight renewal, the join authenticated by authClient.
RiJoinWithClient ==
  /\ pc = "ri_branch"
  /\ ~oldIdentity.renewable
  /\ ~RiExpired
  /\ bftClient' = authClient
  /\ renewInfo' = [renewInfo EXCEPT !.checkedAt = now]
  /\ Call("bft_start", "ri_ret")
  /\ UNCHANGED <<now, cfgVars, storeIdent, bkpState, loadVars, oldIdentity,
                 authClient, connOpen, regResult, genKey, retIdent, err,
                 newIdentity, svcVars, gateVars, healthy, nextKey, reqs,
                 path, result>>
  /\ UNCHANGED <<history, otherVars>>

\* Mutant: renewIdentity returns without closing its client.
RiReturn_leavesOpen ==
  /\ pc = "ri_ret"
  /\ pc' = Head(stack)
  /\ stack' = Tail(stack)
  /\ UNCHANGED <<now, cfgVars, storeIdent, bkpState, loadVars, oldIdentity,
                 authClient, connOpen, bftClient, regResult, genKey, renewInfo,
                 retIdent, err, newIdentity, svcVars, gateVars, healthy,
                 nextKey, reqs, path, result>>
  /\ UNCHANGED <<history, otherVars>>

\* The return of renewIdentity: the deferred authClient.Close() runs and
\* the result of the callee is handed up.
RiReturn ==
  /\ pc = "ri_ret"
  /\ connOpen' = FALSE
  /\ pc' = Head(stack)
  /\ stack' = Tail(stack)
  /\ UNCHANGED <<now, cfgVars, storeIdent, bkpState, loadVars, oldIdentity,
                 authClient, bftClient, regResult, genKey, renewInfo, retIdent, err,
                 newIdentity, svcVars, gateVars, healthy, nextKey, reqs,
                 path, result>>
  /\ UNCHANGED <<history, otherVars>>

\* -------------------------------------------------------------- Initialize
\* Line 293: loadedIdent, valid := s.loadIdentityFromStore(...)
InitLoad ==
  /\ pc = "init"
  /\ \E lo \in LoadOutcomes : \E tk \in TokenReads(lo) :
       /\ loadedIdent' = loadIdentityFromStore(lo, tk)[1]
       /\ valid' = loadIdentityFromStore(lo, tk)[2]
       /\ loadInfo' = [outcome |-> lo, token |-> tk, at |-> now,
                       stored |-> storeIdent]
  /\ pc' = "init_decide"
  /\ UNCHANGED <<now, cfgVars, storeIdent, bkpState, stack, callVars,
                 retIdent, err, newIdentity, svcVars, gateVars, healthy,
                 nextKey, reqs, path, result>>
  /\ UNCHANGED <<history, otherVars>>

\* Mutant: the missing token is not checked and the join goes ahead.
InitBadParameter_joins ==
  /\ pc = "init_decide"
  /\ ~valid /\ ~HasToken
  /\ bftClient' = Nil
  /\ path' = "join"
  /\ Call("bft_start", "init_joined")
  /\ UNCHANGED <<now, cfgVars, storeIdent, bkpState, loadVars, oldIdentity,
                 authClient, connOpen, regResult, genKey, renewInfo, retIdent, err,
                 newIdentity, svcVars, gateVars, healthy, nextKey, reqs,
                 result, history, otherVars>>

\* Lines 294-301: nothing valid was loaded and no join token is configured.
InitBadParameter ==
  /\ pc = "init_decide"
  /\ ~valid /\ ~HasToken
  /\ result' = "BadParameter"
  /\ path' = "badparam"
  /\ pc' = "done"
  /\ UNCHANGED <<now, cfgVars, storeIdent, bkpState, stack, loadVars,
                 callVars, retIdent, err, newIdentity, svcVars, gateVars,
                 healthy, nextKey, reqs>>
  /\ UNCHANGED <<history, otherVars>>

\* Lines 312-320: no identity, join from scratch.
InitJoin ==
  /\ pc = "init_decide"
  /\ valid \/ HasToken
  /\ loadedIdent = Nil
  /\ bftClient' = Nil
  /\ path' = "join"
  /\ Call("bft_start", "init_joined")
  /\ UNCHANGED <<now, cfgVars, storeIdent, bkpState, loadVars, oldIdentity,
                 authClient, connOpen, regResult, genKey, renewInfo, retIdent, err,
                 newIdentity, svcVars, gateVars, healthy, nextKey, reqs,
                 result>>
  /\ UNCHANGED <<history, otherVars>>

\* Lines 322-324: a valid identity is renewed.
InitRenew ==
  /\ pc = "init_decide"
  /\ valid \/ HasToken
  /\ loadedIdent # Nil
  /\ valid
  /\ oldIdentity' = loadedIdent
  /\ renewInfo' = RenewalBegins("n/a")
  /\ path' = "renew"
  /\ Call("ri_build", "init_after")
  /\ UNCHANGED <<now, cfgVars, storeIdent, bkpState, loadVars, authClient,
                 connOpen, bftClient, regResult, genKey, retIdent, err,
                 newIdentity, svcVars, gateVars, healthy, nextKey, reqs,
                 result>>
  /\ UNCHANGED <<history, otherVars>>

\* Mutant: an identity that is not valid is renewed like a valid one.
InitRejoin_renews ==
  /\ pc = "init_decide"
  /\ valid \/ HasToken
  /\ loadedIdent # Nil
  /\ ~valid
  /\ oldIdentity' = loadedIdent
  /\ path' = "rejoin"
  /\ Call("ri_build", "init_after")
  /\ UNCHANGED <<now, cfgVars, storeIdent, bkpState, loadVars, authClient,
                 connOpen, bftClient, regResult, genKey, renewInfo, retIdent, err,
                 newIdentity, svcVars, gateVars, healthy, nextKey, reqs,
                 result, history, otherVars>>

\* Mutant: an identity that is not valid is re-joined for, token or not.
InitRejoin_withoutToken ==
  /\ pc = "init_decide"
  /\ loadedIdent # Nil
  /\ ~valid
  /\ bftClient' = Nil
  /\ path' = "rejoin"
  /\ Call("bft_start", "init_after")
  /\ UNCHANGED <<now, cfgVars, storeIdent, bkpState, loadVars, oldIdentity,
                 authClient, connOpen, regResult, genKey, renewInfo, retIdent, err,
                 newIdentity, svcVars, gateVars, healthy, nextKey, reqs,
                 result>>
  /\ UNCHANGED <<history, otherVars>>

\* Lines 325-328: an identity that is not valid, join again from scratch.
InitRejoin ==
  /\ pc = "init_decide"
  /\ valid \/ HasToken
  /\ loadedIdent # Nil
  /\ ~valid
  /\ bftClient' = Nil
  /\ path' = "rejoin"
  /\ Call("bft_start", "init_after")
  /\ UNCHANGED <<now, cfgVars, storeIdent, bkpState, loadVars, oldIdentity,
                 authClient, connOpen, regResult, genKey, renewInfo, retIdent, err,
                 newIdentity, svcVars, gateVars, healthy, nextKey, reqs,
                 result>>
  /\ UNCHANGED <<history, otherVars>>

\* Mutant: the error of the join is ignored.
InitJoined_ignoresError ==
  /\ pc = "init_joined"
  /\ newIdentity' = retIdent
  /\ pc' = "init_save"
  /\ UNCHANGED <<now, cfgVars, storeIdent, bkpState, stack, loadVars,
                 callVars, retIdent, err, svcVars, gateVars, healthy,
                 nextKey, reqs, path, result, history, otherVars>>

\* Lines 318-320: the join from scratch returned.
InitJoined ==
  /\ pc = "init_joined"
  /\ IF err # ""
       THEN /\ result' = "joining with token"
            /\ pc' = "done"
            /\ UNCHANGED newIdentity
       ELSE /\ newIdentity' = retIdent
            /\ pc' = "init_save"
            /\ UNCHANGED result
  /\ UNCHANGED <<now, cfgVars, storeIdent, bkpState, stack, loadVars,
                 callVars, retIdent, err, svcVars, gateVars, healthy,
                 nextKey, reqs, path>>
  /\ UNCHANGED <<history, otherVars>>

\* Mutant: the error is returned instead of falling back.
InitFallback_propagates ==
  /\ pc = "init_after"
  /\ err # ""
  /\ result' = "renewing identity"
  /\ pc' = "done"
  /\ UNCHANGED <<now, cfgVars, storeIdent, bkpState, stack, loadVars,
                 callVars, retIdent, err, newIdentity, svcVars, gateVars,
                 healthy, nextKey, reqs, path, history, otherVars>>

\* Mutant: the fallback on the old identity unblocks the waiters.
InitFallback_signalsReady ==
  /\ pc = "init_after"
  /\ err # ""
  /\ mu = 0
  /\ \/ /\ result' = "client_err"
        /\ UNCHANGED <<svcVars, gateVars>>
     \/ /\ facade' = loadedIdent
        /\ installed' = installed \cup {loadedIdent}
        /\ client' = "old"
        /\ facadePtr' = NewFacade
        /\ clientFacade' = NewFacade
        /\ result' = "nil"
        /\ unblockWaiters
  /\ pc' = "done"
  /\ UNCHANGED <<now, cfgVars, storeIdent, bkpState, stack, loadVars,
                 callVars, retIdent, err, newIdentity, healthy,
                 nextKey, reqs, path>>
  /\ UNCHANGED <<history, otherVars>>

\* Lines 341-355: renewing or re-joining failed with an identity on disk;
\* continue with the old identity if a client can be built around it.
InitFallback ==
  /\ pc = "init_after"
  /\ err # ""
  /\ mu = 0
  /\ \/ /\ result' = "client_err"
        /\ UNCHANGED svcVars
     \/ /\ facade' = loadedIdent
        /\ installed' = installed \cup {loadedIdent}
        /\ client' = "old"
        /\ facadePtr' = NewFacade
        /\ clientFacade' = NewFacade
        /\ result' = "nil"
  /\ pc' = "done"
  /\ UNCHANGED <<now, cfgVars, storeIdent, bkpState, stack, loadVars,
                 callVars, retIdent, err, newIdentity, gateVars, healthy,
                 nextKey, reqs, path>>
  /\ UNCHANGED <<history, otherVars>>

\* Line 341 with err == nil: fall through to the success path.
InitRenewed ==
  /\ pc = "init_after"
  /\ err = ""
  /\ newIdentity' = retIdent
  /\ pc' = "init_save"
  /\ UNCHANGED <<now, cfgVars, storeIdent, bkpState, stack, loadVars,
                 callVars, retIdent, err, svcVars, gateVars, healthy,
                 nextKey, reqs, path, result>>
  /\ UNCHANGED <<history, otherVars>>

\* Mutant: the new identity is not persisted before it is published.
InitSave_skipped ==
  /\ pc = "init_save"
  /\ pc' = "init_build"
  /\ UNCHANGED <<now, cfgVars, storeIdent, bkpState, stack, loadVars,
                 callVars, retIdent, err, newIdentity, svcVars, gateVars,
                 healthy, nextKey, reqs, path, result, history, otherVars>>

\* Mutant: a failed save falls back on the loaded identity, if there is one.
InitSave_fallsBack ==
  /\ pc = "init_save"
  /\ \/ /\ loadedIdent = Nil
        /\ result' = "save_err"
        /\ pc' = "done"
        /\ UNCHANGED <<storeIdent, svcVars>>
     \/ /\ loadedIdent # Nil
        /\ facade' = loadedIdent
        /\ installed' = installed \cup {loadedIdent}
        /\ client' = "old"
        /\ facadePtr' = NewFacade
        /\ clientFacade' = NewFacade
        /\ result' = "nil"
        /\ pc' = "done"
        /\ UNCHANGED storeIdent
     \/ /\ storeIdent' = newIdentity
        /\ pc' = "init_build"
        /\ UNCHANGED <<result, svcVars>>
  /\ UNCHANGED <<now, cfgVars, bkpState, stack, loadVars, callVars, retIdent,
                 err, newIdentity, gateVars, healthy, nextKey, reqs,
                 path>>
  /\ UNCHANGED <<history, otherVars>>

\* Lines 360-362: identity.SaveIdentity.
InitSave ==
  /\ pc = "init_save"
  /\ \/ /\ result' = "save_err"
        /\ pc' = "done"
        /\ UNCHANGED storeIdent
     \/ /\ storeIdent' = newIdentity
        /\ pc' = "init_build"
        /\ UNCHANGED result
  /\ UNCHANGED <<now, cfgVars, bkpState, stack, loadVars, callVars, retIdent,
                 err, newIdentity, svcVars, gateVars, healthy, nextKey, reqs,
                 path>>
  /\ UNCHANGED <<history, otherVars>>

\* Lines 364-372: a facade over the new identity and a client around it.
InitBuild ==
  /\ pc = "init_build"
  /\ mu = 0
  /\ \/ /\ result' = "client_err"
        /\ pc' = "done"
        /\ UNCHANGED svcVars
     \/ /\ facade' = newIdentity
        /\ installed' = installed \cup {newIdentity}
        /\ client' = "new"
        /\ facadePtr' = NewFacade
        /\ clientFacade' = NewFacade
        /\ pc' = "init_unblock"
        /\ UNCHANGED result
  /\ UNCHANGED <<now, cfgVars, storeIdent, bkpState, stack, loadVars,
                 callVars, retIdent, err, newIdentity, gateVars, healthy,
                 nextKey, reqs, path>>
  /\ UNCHANGED <<history, otherVars>>

\* Line 374: s.unblockWaiters()
InitUnblock ==
  /\ pc = "init_unblock"
  /\ mu = 0
  /\ unblockWaiters
  /\ pc' = "init_report"
  /\ UNCHANGED <<now, cfgVars, storeIdent, bkpState, stack, loadVars,
                 callVars, retIdent, err, newIdentity, svcVars, healthy,
                 nextKey, reqs, path, result>>
  /\ UNCHANGED <<history, otherVars>>

\* Lines 375-378: report Healthy and return nil.
InitReport ==
  /\ pc = "init_report"
  /\ healthy' = TRUE
  /\ result' = "nil"
  /\ pc' = "done"
  /\ UNCHANGED <<now, cfgVars, storeIdent, bkpState, stack, loadVars,
                 callVars, retIdent, err, newIdentity, svcVars, gateVars,
                 nextKey, reqs, path>>
  /\ UNCHANGED <<history, otherVars>>

\* Mutant: the failed writability check is noted but renew goes on.
RnStart_ignoresVerify ==
  /\ pc = "rn_start"
  /\ oldIdentity' = facade
  /\ \/ /\ faulty
        /\ renewInfo' = RenewalBegins("failed")
        /\ renewErr' = "verify_err"
     \/ /\ renewInfo' = RenewalBegins("ok")
        /\ UNCHANGED renewErr
  /\ Call("ri_build", "rn_after")
  /\ UNCHANGED <<now, cfgVars, storeIdent, bkpState, loadVars, authClient,
                 connOpen, bftClient, regResult, genKey, retIdent, err,
                 newIdentity, svcVars, gateVars, healthy, nextKey, reqs,
                 path, result, history, sideVars, boundKeypairState, procVars, retryVars, ctxDone, cycles, failures,
                 runResult, mu, readerVars, threadVars>>

\* ------------------------------------------------------------------- renew
\* Lines 463-469: the current identity of the facade, the writability check
\* of the destination, then renewIdentity.
RnStart ==
  /\ pc = "rn_start"
  /\ oldIdentity' = facade
  /\ \/ /\ faulty
        /\ renewInfo' = RenewalBegins("failed")
        /\ renewErr' = "verify_err"
        /\ pc' = Head(stack)
        /\ stack' = Tail(stack)
     \/ /\ renewInfo' = RenewalBegins("ok")
        /\ Call("ri_build", "rn_after")
        /\ UNCHANGED renewErr
  /\ UNCHANGED <<now, cfgVars, storeIdent, bkpState, loadVars, authClient,
                 connOpen, bftClient, regResult, genKey, retIdent, err,
                 newIdentity, svcVars, gateVars, healthy, nextKey, reqs,
                 path, result, history, sideVars, boundKeypairState, procVars, retryVars, ctxDone, cycles, failures, runResult,
                 mu, readerVars, threadVars>>

\* Lines 469-474: the result of renewIdentity.
RnAfter ==
  /\ pc = "rn_after"
  /\ IF err # ""
       THEN /\ renewErr' = "renewing identity"
            /\ pc' = Head(stack)
            /\ stack' = Tail(stack)
            /\ UNCHANGED newIdentity
       ELSE /\ newIdentity' = retIdent
            /\ pc' = "rn_set"
            /\ UNCHANGED <<renewErr, stack>>
  /\ UNCHANGED <<now, cfgVars, storeIdent, bkpState, loadVars, callVars,
                 retIdent, err, svcVars, gateVars, healthy, nextKey, reqs,
                 path, result, history, sideVars, boundKeypairState, procVars, retryVars, ctxDone, cycles, failures, runResult,
                 mu, readerVars, threadVars>>

\* Mutant: the new certificates are written into the identity the facade
\* already holds, which keeps its key.
RnSet_inPlace ==
  /\ pc = "rn_set"
  /\ facade' = [newIdentity EXCEPT !.key = facade.key]
  /\ installed' = installed \cup {newIdentity}
  /\ pc' = "rn_save"
  /\ UNCHANGED <<now, cfgVars, storeIdent, bkpState, stack, loadVars,
                 callVars, retIdent, err, newIdentity, client, facadePtr,
                 clientFacade, gateVars,
                 healthy, nextKey, reqs, path, result, history, otherVars>>

\* Mutant: renew publishes the new identity in a new Facade object.
RnSet_newFacade ==
  /\ pc = "rn_set"
  /\ facade' = newIdentity
  /\ facadePtr' = NewFacade
  /\ installed' = installed \cup {newIdentity}
  /\ pc' = "rn_save"
  /\ UNCHANGED <<now, cfgVars, storeIdent, bkpState, stack, loadVars,
                 callVars, retIdent, err, newIdentity, client,
                 clientFacade, gateVars,
                 healthy, nextKey, reqs, path, result, history, otherVars>>

\* Line 475: s.facade.Set(newIdentity)
RnSet ==
  /\ pc = "rn_set"
  /\ facade' = newIdentity
  /\ installed' = installed \cup {newIdentity}
  /\ pc' = "rn_save"
  /\ UNCHANGED <<now, cfgVars, storeIdent, bkpState, stack, loadVars,
                 callVars, retIdent, err, newIdentity, client, facadePtr,
                 clientFacade, gateVars,
                 healthy, nextKey, reqs, path, result, history, otherVars>>

\* Lines 477-482: identity.SaveIdentity, then return.
RnSave ==
  /\ pc = "rn_save"
  /\ \/ /\ faulty
        /\ renewErr' = "saving new identity"
        /\ UNCHANGED storeIdent
     \/ /\ storeIdent' = newIdentity
        /\ renewErr' = ""
  /\ pc' = Head(stack)
  /\ stack' = Tail(stack)
  /\ UNCHANGED <<now, cfgVars, bkpState, loadVars, callVars, retIdent, err,
                 newIdentity, svcVars, gateVars, healthy, nextKey, reqs,
                 path, result, history, sideVars, boundKeypairState, procVars, retryVars, ctxDone, cycles, failures, runResult,
                 mu, readerVars, threadVars>>

\* --------------------------------------------------------------------- Run
\* Ready(), as IsReady calls it: the channel is made if there is none.
\* IsReady is then whether that channel is closed.
IsReadyNow == EnsureChan \in closed

\* retryutils.NewExponentialDriver(1 * time.Second), in milliseconds.
Driver == 1000

\* Max: 1 * time.Minute, in milliseconds.
Max == 60000

\* The wait before attempt n without jitter: the driver's duration, which
\* starts at Driver and doubles, capped at Max.
RetryDuration(n) ==
  IF Driver * 2^(n - 1) > Max THEN Max ELSE Driver * 2^(n - 1)

\* retryutils.HalfJitter: a duration between half of d and d; the two ends
\* and the middle stand for the range.
HalfJitter(d) == {d \div 2, (3 * d) \div 4, d}

\* No retry is in scope, or it has not been waited on.
NoWait == [base |-> 0, dur |-> 0]

\* Line 415, retry.Inc(); the counter stops counting at MaxAttempts, where
\* the duration has long reached Max.
RetryInc == IF attempt < MaxAttempts THEN attempt + 1 ELSE attempt

\* Mutant: retry.Inc() is called before the first wait only.
EnterRetryWait_incOnce ==
  IF timed
    THEN /\ attempt' = (IF attempt = 0 THEN 1 ELSE attempt)
         /\ \E d \in HalfJitter(RetryDuration(attempt')) :
              wait' = [base |-> RetryDuration(attempt'), dur |-> d]
    ELSE UNCHANGED retryVars

\* Lines 415-421: retry.Inc(), then retry.After() starts a timer of the
\* jittered duration.  The counter and the timer are recorded in the
\* behaviours that are timed; the others leave them out, nothing else
\* depending on them.
EnterRetryWait ==
  IF timed
    THEN /\ attempt' = RetryInc
         /\ \E d \in HalfJitter(RetryDuration(RetryInc)) :
              wait' = [base |-> RetryDuration(RetryInc), dur |-> d]
    ELSE UNCHANGED retryVars

\* The retry goes out of scope with the block of line 405.
RetryDropped ==
  /\ attempt' = 0
  /\ wait' = NoWait

\* Mutant: a Run that finds the service ready renews at once.
RunStart_renewsAtOnce ==
  /\ pc = "done"
  /\ result = "nil"
  /\ mu = 0
  /\ initialized' = EnsureChan
  /\ IF IsReadyNow
       THEN pc' = "rn_start" /\ stack' = <<"run_interval_ret">>
       ELSE pc' = "run_retry_wait" /\ UNCHANGED stack
  /\ IF IsReadyNow THEN UNCHANGED retryVars ELSE EnterRetryWait
  /\ UNCHANGED <<now, cfgVars, storeIdent, bkpState, loadVars,
                 callVars, retIdent, err, newIdentity, svcVars, closed,
                 onceDone, panicked, healthy, nextKey, reqs, path, result,
                 history, sideVars, boundKeypairState, procVars, runVars, mu, readerVars, threadVars>>

\* Lines 396-405: Run starts once Initialize has returned nil.
RunStart ==
  /\ pc = "done"
  /\ result = "nil"
  /\ mu = 0
  /\ initialized' = EnsureChan
  /\ pc' = IF IsReadyNow THEN "run_interval" ELSE "run_retry_wait"
  /\ IF IsReadyNow THEN UNCHANGED retryVars ELSE EnterRetryWait
  /\ UNCHANGED <<now, cfgVars, storeIdent, bkpState, stack, loadVars,
                 callVars, retIdent, err, newIdentity, svcVars, closed,
                 onceDone, panicked, healthy, nextKey, reqs, path, result,
                 history, sideVars, boundKeypairState, procVars, runVars, mu, readerVars, threadVars>>

\* Mutant: the retry timer ends the wait whether or not the context is done.
RunRetry_ignoresDone ==
  /\ pc = "run_retry_wait"
  /\ cycles' = IF cycles < MaxCycles THEN cycles + 1 ELSE cycles
  /\ pc' = "rn_start"
  /\ stack' = <<"run_retry_ret">>
  /\ UNCHANGED <<now, cfgVars, storeIdent, bkpState, loadVars, callVars,
                 retIdent, err, newIdentity, svcVars, gateVars, healthy,
                 nextKey, reqs, path, result, history, sideVars, boundKeypairState, procVars, retryVars, ctxDone,
                 failures, renewErr, runResult, mu, readerVars, threadVars>>

\* Lines 415-426: the wait of the startup retry loop ends with the retry
\* timer, and renew is called.  The timer is a new one for each wait and
\* the select takes the first of its two channels to become ready, so the
\* timer ends the wait only if the context is not done by then.  The loop
\* has no counter; cycles stops counting at MaxCycles.
RunRetry ==
  /\ pc = "run_retry_wait"
  /\ ~ctxDone
  /\ cycles' = IF cycles < MaxCycles THEN cycles + 1 ELSE cycles
  /\ pc' = "rn_start"
  /\ stack' = <<"run_retry_ret">>
  /\ UNCHANGED <<now, cfgVars, storeIdent, bkpState, loadVars, callVars,
                 retIdent, err, newIdentity, svcVars, gateVars, healthy,
                 nextKey, reqs, path, result, history, sideVars, boundKeypairState, procVars, retryVars, ctxDone,
                 failures, renewErr, runResult, mu, readerVars, threadVars>>

\* Mutant: the cancellation seen by the retry loop is returned as an error.
RunRetryCancelled_reportsError ==
  /\ pc = "run_retry_wait"
  /\ ctxDone
  /\ runResult' = "error"
  /\ pc' = "run_done"
  /\ RetryDropped
  /\ UNCHANGED <<now, cfgVars, storeIdent, bkpState, stack, loadVars,
                 callVars, retIdent, err, newIdentity, svcVars, gateVars,
                 healthy, nextKey, reqs, path, result, history, sideVars, boundKeypairState, procVars,
                 ctxDone, cycles, failures, renewErr, mu, readerVars, threadVars>>

\* Lines 422-423: the wait ends with the cancellation of the context.
RunRetryCancelled ==
  /\ pc = "run_retry_wait"
  /\ ctxDone
  /\ runResult' = "nil"
  /\ pc' = "run_done"
  /\ RetryDropped
  /\ UNCHANGED <<now, cfgVars, storeIdent, bkpState, stack, loadVars,
                 callVars, retIdent, err, newIdentity, svcVars, gateVars,
                 healthy, nextKey, reqs, path, result, history, sideVars, boundKeypairState, procVars,
                 ctxDone, cycles, failures, renewErr, mu, readerVars, threadVars>>

\* Lines 426-429: a successful renew ends the startup retry loop.
RunRetrySucceeded ==
  /\ pc = "run_retry_ret"
  /\ renewErr = ""
  /\ mu = 0
  /\ unblockWaiters
  /\ pc' = "run_interval"
  /\ RetryDropped
  /\ UNCHANGED <<now, cfgVars, storeIdent, bkpState, stack, loadVars,
                 callVars, retIdent, err, newIdentity, svcVars, healthy,
                 nextKey, reqs, path, result, history, sideVars, boundKeypairState, procVars, runVars, mu, readerVars, threadVars>>

\* Mutant: the startup retry loop gives up after its second failed attempt.
RunRetryFailed_givesUp ==
  /\ pc = "run_retry_ret"
  /\ renewErr # ""
  /\ IF cycles >= 2
       THEN pc' = "run_done" /\ runResult' = "error" /\ RetryDropped
       ELSE pc' = "run_retry_wait" /\ UNCHANGED runResult /\ EnterRetryWait
  /\ UNCHANGED <<now, cfgVars, storeIdent, bkpState, stack, loadVars,
                 callVars, retIdent, err, newIdentity, svcVars, gateVars,
                 healthy, nextKey, reqs, path, result, history, sideVars, boundKeypairState, procVars,
                 ctxDone, cycles, failures, renewErr, mu, readerVars,
                 threadVars>>

\* Mutant: the startup retry loop unblocks the waiters after a failed
\* attempt too.
RunRetryFailed_unblocks ==
  /\ pc = "run_retry_ret"
  /\ renewErr # ""
  /\ mu = 0
  /\ unblockWaiters
  /\ pc' = "run_retry_wait"
  /\ EnterRetryWait
  /\ UNCHANGED <<now, cfgVars, storeIdent, bkpState, stack, loadVars,
                 callVars, retIdent, err, newIdentity, svcVars,
                 healthy, nextKey, reqs, path, result, history, sideVars, boundKeypairState, procVars, runVars, mu, readerVars, threadVars>>

\* Line 426 with an error: wait and retry.
RunRetryFailed ==
  /\ pc = "run_retry_ret"
  /\ renewErr # ""
  /\ pc' = "run_retry_wait"
  /\ EnterRetryWait
  /\ UNCHANGED <<now, cfgVars, storeIdent, bkpState, stack, loadVars,
                 callVars, retIdent, err, newIdentity, svcVars, gateVars,
                 healthy, nextKey, reqs, path, result, history, sideVars, boundKeypairState, procVars, runVars, mu, readerVars, threadVars>>

\* Lines 440-452: the steady-state loop; the interval elapses before the
\* context is done, and renew is called.
RunInterval ==
  /\ pc = "run_interval"
  /\ ~ctxDone
  /\ cycles < MaxCycles
  /\ cycles' = cycles + 1
  /\ pc' = "rn_start"
  /\ stack' = <<"run_interval_ret">>
  /\ UNCHANGED <<now, cfgVars, storeIdent, bkpState, loadVars, callVars,
                 retIdent, err, newIdentity, svcVars, gateVars, healthy,
                 nextKey, reqs, path, result, history, sideVars, boundKeypairState, procVars, retryVars, ctxDone,
                 failures, renewErr, runResult, mu, readerVars, threadVars>>

\* Lines 440-452, ReloadCh: a reload is signalled while the steady-state
\* loop waits for its interval, and renew is called at once.
RunReload ==
  /\ pc = "run_interval"
  /\ ~ctxDone
  /\ cycles < MaxCycles
  /\ cycles' = cycles + 1
  /\ pc' = "rn_start"
  /\ stack' = <<"run_interval_ret">>
  /\ UNCHANGED <<now, cfgVars, storeIdent, bkpState, loadVars, callVars,
                 retIdent, err, newIdentity, svcVars, gateVars, healthy,
                 nextKey, reqs, path, result, history, sideVars, boundKeypairState, procVars, retryVars, ctxDone,
                 failures, renewErr, runResult, mu, readerVars, threadVars>>

\* The steady-state loop ends with the cancellation of the context: while
\* it waits for the interval or a backoff, or when an attempt comes back
\* failed from a context that is done.
RunIntervalCancelled ==
  /\ \/ pc \in {"run_interval", "run_backoff"}
     \/ pc = "run_interval_ret" /\ renewErr # ""
  /\ ctxDone
  /\ runResult' = "nil"
  /\ pc' = "run_done"
  /\ UNCHANGED <<now, cfgVars, storeIdent, bkpState, stack, loadVars,
                 callVars, retIdent, err, newIdentity, svcVars, gateVars,
                 healthy, nextKey, reqs, path, result, history, sideVars, boundKeypairState, procVars, retryVars,
                 ctxDone, cycles, failures, renewErr, mu, readerVars, threadVars>>

\* Mutant: a successful cycle does not end the count of failures.
RunIntervalRet_keepsCount ==
  /\ pc = "run_interval_ret"
  /\ renewErr = "" \/ (~ctxDone /\ failures < botIdentityRenewalRetryLimit)
  /\ failures' = IF renewErr = "" THEN failures ELSE failures + 1
  /\ pc' = IF renewErr = "" THEN "run_interval" ELSE "run_backoff"
  /\ UNCHANGED <<now, cfgVars, storeIdent, bkpState, stack, loadVars,
                 callVars, retIdent, err, newIdentity, svcVars, gateVars,
                 healthy, nextKey, reqs, path, result, history, sideVars, boundKeypairState, procVars, retryVars,
                 ctxDone, cycles, renewErr, runResult, mu, readerVars,
                 threadVars>>

\* RunOnInterval after F returned: a success ends the count of consecutive
\* failures and the next interval is awaited; a failure within the limit
\* is counted and the attempt is repeated after a backoff.
RunIntervalRet ==
  /\ pc = "run_interval_ret"
  /\ renewErr = "" \/ (~ctxDone /\ failures < botIdentityRenewalRetryLimit)
  /\ failures' = IF renewErr = "" THEN 0 ELSE failures + 1
  /\ pc' = IF renewErr = "" THEN "run_interval" ELSE "run_backoff"
  /\ UNCHANGED <<now, cfgVars, storeIdent, bkpState, stack, loadVars,
                 callVars, retIdent, err, newIdentity, svcVars, gateVars,
                 healthy, nextKey, reqs, path, result, history, sideVars, boundKeypairState, procVars, retryVars,
                 ctxDone, cycles, renewErr, runResult, mu, readerVars,
                 threadVars>>

\* RunOnInterval: the backoff after a failed attempt ends, renew is called
\* again.
RunIntervalAttempt ==
  /\ pc = "run_backoff"
  /\ ~ctxDone
  /\ pc' = "rn_start"
  /\ stack' = <<"run_interval_ret">>
  /\ UNCHANGED <<now, cfgVars, storeIdent, bkpState, loadVars, callVars,
                 retIdent, err, newIdentity, svcVars, gateVars, healthy,
                 nextKey, reqs, path, result, history, otherVars>>

\* RunOnInterval after F failed once more than the limit permits: it
\* returns the error, and so does Run (line 453).
RunIntervalExhausted ==
  /\ pc = "run_interval_ret"
  /\ renewErr # ""
  /\ ~ctxDone
  /\ failures >= botIdentityRenewalRetryLimit
  /\ failures' = failures + 1
  /\ runResult' = "error"
  /\ pc' = "run_done"
  /\ UNCHANGED <<now, cfgVars, storeIdent, bkpState, stack, loadVars,
                 callVars, retIdent, err, newIdentity, svcVars, gateVars,
                 healthy, nextKey, reqs, path, result, history, sideVars, boundKeypairState, procVars, retryVars,
                 ctxDone, cycles, renewErr, mu, readerVars, threadVars>>

\* ------------------------------------------------------------- GetIdentity
Readers == 1 .. NumReaders

\* s.mu as held by reader r.
ReaderLock(r) == NumThreads + r

\* Line 133: s.mu.Lock().  Readers run once Initialize has returned nil.
RdLock(r) ==
  /\ rpc[r] = "idle"
  /\ result = "nil"
  /\ mu = 0
  /\ mu' = ReaderLock(r)
  /\ rpc' = [rpc EXCEPT ![r] = "locked"]
  /\ UNCHANGED <<now, cfgVars, storeIdent, bkpState, pc, stack, loadVars,
                 callVars, retIdent, err, newIdentity, svcVars, gateVars,
                 healthy, nextKey, reqs, path, result, history, sideVars, boundKeypairState, procVars, retryVars,
                 runVars, got, threadVars>>

\* Line 135: s.facade.Get()
RdGet(r) ==
  /\ rpc[r] = "locked"
  /\ got' = [got EXCEPT ![r] = facade]
  /\ rpc' = [rpc EXCEPT ![r] = "unlock"]
  /\ UNCHANGED <<now, cfgVars, storeIdent, bkpState, pc, stack, loadVars,
                 callVars, retIdent, err, newIdentity, svcVars, gateVars,
                 healthy, nextKey, reqs, path, result, history, sideVars, boundKeypairState, procVars, retryVars,
                 runVars, mu, threadVars>>

\* Line 134: the deferred s.mu.Unlock()
RdUnlock(r) ==
  /\ rpc[r] = "unlock"
  /\ mu' = 0
  /\ rpc' = [rpc EXCEPT ![r] = "idle"]
  /\ UNCHANGED <<now, cfgVars, storeIdent, bkpState, pc, stack, loadVars,
                 callVars, retIdent, err, newIdentity, svcVars, gateVars,
                 healthy, nextKey, reqs, path, result, history, sideVars, boundKeypairState, procVars, retryVars,
                 runVars, got, threadVars>>

\* ---------------------------------- unblockWaiters, Ready, IsReady in steps
Threads == 1 .. NumThreads

engineVars == <<now, cfgVars, storeIdent, bkpState, pc, stack, loadVars,
                callVars, retIdent, err, newIdentity, svcVars, healthy,
                nextKey, reqs, path, result, history, sideVars, boundKeypairState, procVars, retryVars, runVars,
                readerVars>>

\* A goroutine calls unblockWaiters, Ready or IsReady.
ThCall(t, entry) ==
  /\ tpc[t] = "idle"
  /\ tops[t] < MaxOps
  /\ tops' = [tops EXCEPT ![t] = @ + 1]
  /\ tpc' = [tpc EXCEPT ![t] = entry]
  /\ UNCHANGED <<engineVars, gateVars, mu, tch, isReadyLog>>

ThCallUnblock(t) == ThCall(t, "uw_lock")
ThCallReady(t) == ThCall(t, "rd_lock")
ThCallIsReady(t) == ThCall(t, "ir_lock")

\* Line 486: s.mu.Lock()
UwLock(t) ==
  /\ tpc[t] = "uw_lock"
  /\ mu = 0
  /\ mu' = t
  /\ tpc' = [tpc EXCEPT ![t] = "uw_cs"]
  /\ UNCHANGED <<engineVars, gateVars, tops, tch, isReadyLog>>

\* Lines 489-493
UwBody(t) ==
  /\ tpc[t] = "uw_cs"
  /\ unblockWaiters
  /\ tpc' = [tpc EXCEPT ![t] = "uw_unlock"]
  /\ UNCHANGED <<engineVars, mu, tops, tch, isReadyLog>>

\* Line 487: the deferred s.mu.Unlock()
UwUnlock(t) ==
  /\ tpc[t] = "uw_unlock"
  /\ mu' = 0
  /\ tpc' = [tpc EXCEPT ![t] = "idle"]
  /\ UNCHANGED <<engineVars, gateVars, tops, tch, isReadyLog>>

\* Line 166: s.mu.Lock() in Ready, called directly or by IsReady.
ReadyLock(t) ==
  /\ tpc[t] \in {"rd_lock", "ir_lock"}
  /\ mu = 0
  /\ mu' = t
  /\ tpc' = [tpc EXCEPT ![t] = IF @ = "rd_lock" THEN "rd_cs" ELSE "ir_cs"]
  /\ UNCHANGED <<engineVars, gateVars, tops, tch, isReadyLog>>

\* Mutant: Ready makes a new channel on every call.
ReadyBody_alwaysMakes(t) ==
  /\ tpc[t] \in {"rd_cs", "ir_cs"}
  /\ initialized' = initialized + 1
  /\ tch' = [tch EXCEPT ![t] = initialized + 1]
  /\ tpc' = [tpc EXCEPT ![t] = IF @ = "rd_cs" THEN "rd_unlock" ELSE "ir_unlock"]
  /\ UNCHANGED <<engineVars, closed, onceDone, panicked, mu, tops, isReadyLog>>

\* Lines 169-173: make the channel if there is none, and return it.
ReadyBody(t) ==
  /\ tpc[t] \in {"rd_cs", "ir_cs"}
  /\ initialized' = EnsureChan
  /\ tch' = [tch EXCEPT ![t] = EnsureChan]
  /\ tpc' = [tpc EXCEPT ![t] = IF @ = "rd_cs" THEN "rd_unlock" ELSE "ir_unlock"]
  /\ UNCHANGED <<engineVars, closed, onceDone, panicked, mu, tops, isReadyLog>>

\* Line 167: the deferred s.mu.Unlock()
ReadyUnlock(t) ==
  /\ tpc[t] \in {"rd_unlock", "ir_unlock"}
  /\ mu' = 0
  /\ tpc' = [tpc EXCEPT ![t] = IF @ = "rd_unlock" THEN "idle" ELSE "ir_select"]
  /\ UNCHANGED <<engineVars, gateVars, tops, tch, isReadyLog>>

\* Lines 178-183: the non-blocking receive of IsReady.
IsReadySelect(t) ==
  /\ tpc[t] = "ir_select"
  /\ isReadyLog' = Append(isReadyLog, tch[t] \in closed)
  /\ tpc' = [tpc EXCEPT ![t] = "idle"]
  /\ UNCHANGED <<engineVars, gateVars, mu, tops, tch>>

\* ------------------------------------------------------------ environment
\* The wall clock advances.
Tick ==
  /\ now < MaxTime
  /\ now' = now + 1
  /\ UNCHANGED <<cfgVars, storeIdent, bkpState, pc, stack, loadVars,
                 callVars, retIdent, err, newIdentity, svcVars, gateVars,
                 healthy, nextKey, reqs, path, result, history, otherVars>>

\* Initialize has returned nil; from here on the store is writable, the
\* network is up and the authority accepts what it must.
Heal ==
  /\ pc = "done"
  /\ result = "nil"
  /\ faulty
  /\ faulty' = FALSE
  /\ UNCHANGED <<now, timed, joinSecret, tokenCfg, joinMethod, storeIdent, bkpState, pc, stack,
                 loadVars, callVars, retIdent, err, newIdentity, svcVars,
                 gateVars, healthy, nextKey, reqs, path, result, history,
                 otherVars>>

\* The context of Run is cancelled.
Cancel ==
  /\ pc \notin {"init", "run_done"}
  /\ result = "nil"
  /\ ~ctxDone
  /\ ctxDone' = TRUE
  /\ renewInfo' = [renewInfo EXCEPT !.cancelled = (stack # <<>>)]
  /\ UNCHANGED <<now, cfgVars, storeIdent, bkpState, pc, stack, loadVars,
                 oldIdentity, authClient, connOpen, bftClient, regResult,
                 genKey, retIdent, err, newIdentity, svcVars, gateVars,
                 healthy, nextKey, reqs, path, result, history, sideVars, boundKeypairState, procVars, retryVars,
                 cycles, failures, renewErr, runResult, mu, readerVars,
                 threadVars>>

\* The process ends after Initialize has returned and a new one is started
\* against the same destination, with the token then configured.
Restart ==
  /\ pc = "done"
  /\ restarts < MaxRestarts
  /\ restarts' = restarts + 1
  /\ prev' = [token |-> tokenCfg, result |-> result, path |-> path,
              stored |-> storeIdent]
  /\ tokenCfg' \in TokenCfgs
  /\ pc' = "init"
  /\ stack' = <<>>
  /\ loadedIdent' = Nil
  /\ valid' = FALSE
  /\ loadInfo' = [outcome |-> "", token |-> "", at |-> 0, stored |-> Nil]
  /\ oldIdentity' = Nil
  /\ authClient' = Nil
  /\ connOpen' = FALSE
  /\ bftClient' = Nil
  /\ boundKeypairState' = NoClientState
  /\ regResult' = [key |-> 0, nb |-> 0, na |-> 0]
  /\ genKey' = 0
  /\ renewInfo' = NoRenewal
  /\ retIdent' = Nil
  /\ err' = ""
  /\ newIdentity' = Nil
  /\ facade' = Nil
  /\ installed' = {}
  /\ client' = ""
  /\ facadePtr' = 0
  /\ clientFacade' = 0
  /\ initialized' = 0
  /\ closed' = {}
  /\ onceDone' = FALSE
  /\ panicked' = FALSE
  /\ healthy' = FALSE
  /\ reqs' = {}
  /\ path' = ""
  /\ result' = ""
  /\ UNCHANGED <<now, faulty, timed, joinSecret, joinMethod, storeIdent, bkpState, nextKey,
                 history,
                 runVars, retryVars, mu, readerVars, threadVars, sideVars>>

\* ---------------------------------------------------------- specification
\* Validity windows of an identity left in the store by an earlier run.
InitWindows == {<<0, 0>>, <<0, 1>>, <<1, 2>>, <<2, 3>>}

InitIdents ==
  {Ident(1, w[1], w[2], h, r) :
     w \in InitWindows, h \in {"", "sha-A", "sha-B"}, r \in BOOLEAN}

\* The components beside the engine, when a specification leaves them out.
NsOff == [pc |-> "off"]
DbOff == [pc |-> "off"]
AgeOff == [pc |-> "off"]

\* The engine of a newly constructed service.
FreshService ==
  /\ pc = "init"
  /\ stack = <<>>
  /\ loadedIdent = Nil
  /\ valid = FALSE
  /\ loadInfo = [outcome |-> "", token |-> "", at |-> 0, stored |-> Nil]
  /\ oldIdentity = Nil
  /\ authClient = Nil
  /\ connOpen = FALSE
  /\ bftClient = Nil
  /\ boundKeypairState = NoClientState
  /\ regResult = [key |-> 0, nb |-> 0, na |-> 0]
  /\ genKey = 0
  /\ renewInfo = NoRenewal
  /\ retIdent = Nil
  /\ err = ""
  /\ newIdentity = Nil
  /\ facade = Nil
  /\ installed = {}
  /\ client = ""
  /\ facadePtr = 0
  /\ clientFacade = 0
  /\ initialized = 0
  /\ closed = {}
  /\ onceDone = FALSE
  /\ panicked = FALSE
  /\ healthy = FALSE
  /\ reqs = {}
  /\ path = ""
  /\ result = ""
  /\ history = <<>>
  /\ restarts = 0
  /\ prev = [token |-> "", result |-> "", path |-> "", stored |-> Nil]
  /\ ctxDone = FALSE
  /\ cycles = 0
  /\ failures = 0
  /\ renewErr = ""
  /\ runResult = ""
  /\ attempt = 0
  /\ wait = NoWait
  /\ mu = 0
  /\ rpc = [r \in Readers |-> "idle"]
  /\ got = [r \in Readers |-> Nil]
  /\ tpc = [t \in Threads |-> "idle"]
  /\ tops = [t \in Threads |-> 0]
  /\ tch = [t \in Threads |-> 0]
  /\ isReadyLog = <<>>

\* The state of a newly constructed service (NewService) and its process.
Fresh ==
  /\ ns = NsOff
  /\ db = DbOff
  /\ age = AgeOff
  /\ FreshService

\* Any configuration and any destination content at the start of a process.
Init ==
  /\ now = 1
  /\ faulty = TRUE
  /\ timed = FALSE
  /\ joinSecret = TRUE
  /\ tokenCfg \in TokenCfgs
  /\ joinMethod \in JoinMethods
  /\ storeIdent \in {Nil} \cup InitIdents
  /\ bkpState = 0
  /\ nextKey = 2
  /\ Fresh

Issue ==
  \/ BftStart \/ BftRegister \/ BftPost
  \/ BfaStart \/ BfaCall
  \/ RiBuild \/ RiRenewable \/ RiJoinWithoutClient \/ RiJoinWithClient
  \/ RiReturn

\* Initialize when a join token is configured.
InitializeWithToken ==
  \/ InitLoad \/ InitJoin \/ InitRenew \/ InitRejoin
  \/ InitJoined \/ InitFallback \/ InitRenewed \/ InitSave \/ InitBuild
  \/ InitUnblock \/ InitReport

Initialize == InitBadParameter \/ InitializeWithToken

renew == RnStart \/ RnAfter \/ RnSet \/ RnSave

\* Run while its context is not cancelled.
RunLoop ==
  \/ RunStart \/ RunRetry \/ RunRetrySucceeded \/ RunRetryFailed
  \/ RunInterval \/ RunReload \/ RunIntervalRet

\* The attempts RunOnInterval repeats after a failed cycle, up to its limit.
RunRetries == RunIntervalAttempt \/ RunIntervalExhausted

Run == RunLoop \/ RunRetryCancelled \/ RunIntervalCancelled

GetIdentity == \E r \in Readers : RdLock(r) \/ RdGet(r) \/ RdUnlock(r)

Gate ==
  \E t \in Threads :
    \/ ThCallUnblock(t) \/ ThCallReady(t) \/ ThCallIsReady(t)
    \/ UwLock(t) \/ UwBody(t) \/ UwUnlock(t)
    \/ ReadyLock(t) \/ ReadyBody(t) \/ ReadyUnlock(t) \/ IsReadySelect(t)

\* Initialize of one process.
Next == Initialize \/ Issue \/ Tick

Spec == Init /\ [][Next]_vars

\* The restart scenario: an empty destination and the token tok-A; the
\* process may be restarted with another token.
InitE2E ==
  /\ now \in {0, 1}
  /\ faulty = TRUE
  /\ timed = FALSE
  /\ joinSecret = TRUE
  /\ tokenCfg = "tok-A"
  /\ joinMethod \in JoinMethods
  /\ storeIdent = Nil
  /\ bkpState = 0
  /\ nextKey = 1
  /\ Fresh

NextE2E == Initialize \/ Issue \/ Tick \/ Restart

SpecE2E == InitE2E /\ [][NextE2E]_vars

\* Initialize followed by Run, with its renewal cycles, the clock standing
\* still.
InitRun ==
  /\ now = 1
  /\ faulty = TRUE
  /\ timed = FALSE
  /\ joinSecret = TRUE
  /\ tokenCfg \in {"", "tok-A"}
  /\ joinMethod \in {"token", "bound_keypair"}
  /\ storeIdent \in {Nil, Ident(1, 0, 0, "sha-A", FALSE),
                     Ident(1, 1, 2, "sha-A", TRUE)}
  /\ bkpState = 0
  /\ nextKey = 2
  /\ Fresh

NextRun == Initialize \/ Issue \/ renew \/ Run \/ Cancel

SpecRun == InitRun /\ [][NextRun]_vars

\* Run with concurrent readers of the identity, the clock standing still.
InitFacade ==
  /\ now = 1
  /\ faulty = TRUE
  /\ timed = FALSE
  /\ joinSecret = TRUE
  /\ tokenCfg = "tok-A"
  /\ \/ /\ joinMethod = "token"
        /\ storeIdent = Ident(1, 1, 3, "sha-A", TRUE)
     \/ /\ joinMethod = "iam"
        /\ storeIdent = Ident(1, 0, 0, "sha-A", FALSE)
  /\ bkpState = 0
  /\ nextKey = 2
  /\ Fresh

NextFacade ==
  InitializeWithToken \/ Issue \/ renew \/ RunLoop \/ GetIdentity

SpecFacade == InitFacade /\ [][NextFacade]_vars

\* The steady-state loop with its retries, the clock standing still.
InitSteady ==
  /\ now = 1
  /\ faulty = TRUE
  /\ timed = FALSE
  /\ joinSecret = TRUE
  /\ tokenCfg = "tok-A"
  /\ joinMethod \in {"token", "iam"}
  /\ storeIdent \in {Ident(1, 0, 0, "sha-A", FALSE),
                     Ident(1, 1, 3, "sha-A", TRUE)}
  /\ bkpState = 0
  /\ nextKey = 2
  /\ Fresh

NextSteady == InitializeWithToken \/ Issue \/ renew \/ RunLoop \/ RunRetries

SpecSteady == InitSteady /\ [][NextSteady]_vars

\* Run with both its loops and their retries, its context cancelled at any
\* moment: a renewable identity that is valid, or one that is not renewable
\* and has expired.
InitCancel ==
  /\ now = 1
  /\ faulty = TRUE
  /\ timed = FALSE
  /\ joinSecret = TRUE
  /\ tokenCfg = "tok-A"
  /\ \/ joinMethod = "token" /\ storeIdent = Ident(1, 1, 3, "sha-A", TRUE)
     \/ joinMethod = "iam" /\ storeIdent = Ident(1, 0, 0, "sha-A", FALSE)
  /\ bkpState = 0
  /\ nextKey = 2
  /\ Fresh

NextCancel ==
  InitializeWithToken \/ Issue \/ renew \/ Run \/ RunRetries \/ Cancel

\* The engine task is scheduled and its calls return, the more so when
\* their context is done: a step of the task that can be taken is taken.
SpecCancel ==
  /\ InitCancel
  /\ [][NextCancel]_vars
  /\ WF_vars(InitializeWithToken \/ Issue \/ renew \/ Run \/ RunRetries)

\* Recovery after a fallback: a token is configured, the destination holds
\* an identity obtained with the configured join method, expired or not,
\* Initialize runs in an environment that may
\* fail, and Run is started once the environment is sound and is never
\* cancelled.
InitRecover ==
  /\ now = 1
  /\ faulty = TRUE
  /\ timed = FALSE
  /\ joinSecret = TRUE
  /\ tokenCfg = "tok-A"
  /\ joinMethod \in {"token", "iam"}
  /\ storeIdent \in {Ident(1, w[1], w[2], "sha-A", joinMethod = "token") :
                       w \in {<<0, 0>>, <<1, 2>>}}
  /\ bkpState = 0
  /\ nextKey = 2
  /\ Fresh

\* Run started once the environment is sound.
RunStartSound == ~faulty /\ RunStart

\* Run in the sound environment, its context never cancelled.
RunRecovering ==
  \/ RunStartSound \/ RunRetry \/ RunRetrySucceeded \/ RunRetryFailed
  \/ RunInterval \/ RunReload \/ RunIntervalRet

NextRecover ==
  InitializeWithToken \/ Issue \/ renew \/ RunRecovering \/ Heal \/ Tick

\* The engine task is scheduled, its retry timer fires and its calls to the
\* authority return: a step of the task that can be taken is taken.
SpecRecover ==
  /\ InitRecover
  /\ [][NextRecover]_vars
  /\ WF_vars(InitializeWithToken \/ Issue \/ renew \/ RunRecovering)

\* The startup retry loop of Run with its timers recorded, after an
\* Initialize that renews, or re-joins and may fall back.
InitBackoff ==
  /\ now = 1
  /\ faulty = TRUE
  /\ timed = TRUE
  /\ joinSecret = TRUE
  /\ tokenCfg = "tok-A"
  /\ \/ /\ joinMethod = "token"
        /\ storeIdent = Ident(1, 1, 3, "sha-A", TRUE)
     \/ /\ joinMethod = "iam"
        /\ storeIdent = Ident(1, 0, 0, "sha-A", FALSE)
  /\ bkpState = 0
  /\ nextKey = 2
  /\ Fresh

\* Lines 404-431 of Run.
StartupRetry ==
  \/ RunStart \/ RunRetry \/ RunRetrySucceeded \/ RunRetryFailed
  \/ RunRetryCancelled

NextBackoff == InitializeWithToken \/ Issue \/ renew \/ StartupRetry \/ Cancel

SpecBackoff == InitBackoff /\ [][NextBackoff]_vars

\* ------------------------------------------------------------ NewService
\* Everything of the engine and its process.
serviceVars == <<now, cfgVars, storeIdent, bkpState, pc, stack, loadVars,
                 callVars, retIdent, err, newIdentity, svcVars, gateVars,
                 healthy, nextKey, reqs, path, result, history, procVars,
                 retryVars, runVars, mu, readerVars, threadVars,
                 boundKeypairState>>

\* The engine, where a specification is about another component.
EngineOff ==
  /\ now = 1
  /\ faulty = TRUE
  /\ timed = FALSE
  /\ joinSecret = TRUE
  /\ tokenCfg = ""
  /\ joinMethod = "token"
  /\ storeIdent = Nil
  /\ bkpState = 0
  /\ nextKey = 1
  /\ FreshService

\* TTL and RenewalInterval: negative, zero and positive durations.
Durations == -1 .. 1

\* The Config values NewService is called with.  conn is what
\* cfg.Connection.Validate() finds; builder, dest, logger and reporter are
\* whether the field is given or nil.
Configs ==
  [conn : BOOLEAN, ttl : Durations, interval : Durations,
   builder : BOOLEAN, dest : {"nil", "given"},
   logger : {"nil", "given"}, reporter : {"nil", "given"}]

\* No service is returned.
NoService == [made |-> FALSE]

\* Mutant: a TTL of zero is accepted.
CheckAndSetDefaults_zeroTTL(cfg) ==
  IF ~cfg.conn THEN [err |-> "connection", cfg |-> cfg]
  ELSE IF cfg.ttl < 0 THEN [err |-> "TTL is required", cfg |-> cfg]
  ELSE IF cfg.interval <= 0
    THEN [err |-> "RenewalInterval is required", cfg |-> cfg]
  ELSE IF ~cfg.builder THEN [err |-> "ClientBuilder is required", cfg |-> cfg]
  ELSE [err |-> "",
        cfg |-> [cfg EXCEPT
                   !.dest = IF @ = "nil" THEN "memory" ELSE @,
                   !.logger = IF @ = "nil" THEN "default" ELSE @,
                   !.reporter = IF @ = "nil" THEN "noop" ELSE @]]

\* Config.CheckAndSetDefaults: the error, and the configuration with its
\* defaults set.
CheckAndSetDefaults(cfg) ==
  IF ~cfg.conn THEN [err |-> "connection", cfg |-> cfg]
  ELSE IF cfg.ttl <= 0 THEN [err |-> "TTL is required", cfg |-> cfg]
  ELSE IF cfg.interval <= 0
    THEN [err |-> "RenewalInterval is required", cfg |-> cfg]
  ELSE IF ~cfg.builder THEN [err |-> "ClientBuilder is required", cfg |-> cfg]
  ELSE [err |-> "",
        cfg |-> [cfg EXCEPT
                   !.dest = IF @ = "nil" THEN "memory" ELSE @,
                   !.logger = IF @ = "nil" THEN "default" ELSE @,
                   !.reporter = IF @ = "nil" THEN "noop" ELSE @]]

\* The Service literal of NewService: cfg, log and clientBuilder are set,
\* the other fields have their zero values.
ServiceOf(cfg) ==
  [made |-> TRUE, cfg |-> cfg, log |-> cfg.logger,
   clientBuilder |-> cfg.builder, client |-> "", facade |-> Nil,
   initialized |-> 0, onceDone |-> FALSE]

\* NewService(cfg)
NewService ==
  /\ ns.pc = "call"
  /\ ns' = [ns EXCEPT
              !.pc = "returned",
              !.err = CheckAndSetDefaults(ns.cfg).err,
              !.svc = IF CheckAndSetDefaults(ns.cfg).err # ""
                        THEN NoService
                        ELSE ServiceOf(CheckAndSetDefaults(ns.cfg).cfg)]
  /\ UNCHANGED <<serviceVars, db, age>>

InitNew ==
  /\ EngineOff
  /\ db = DbOff
  /\ age = AgeOff
  /\ \E cfg \in Configs :
       ns = [pc |-> "call", cfg |-> cfg, err |-> "", svc |-> NoService]

NextNew == NewService

SpecNew == InitNew /\ [][NextNew]_vars

\* Bound keypair joining: Initialize and the startup retry loop of Run, with
\* or without a stored client state and a registration secret.
InitKeypair ==
  /\ now = 1
  /\ faulty = TRUE
  /\ timed = FALSE
  /\ joinSecret \in BOOLEAN
  /\ tokenCfg = "tok-A"
  /\ joinMethod = "bound_keypair"
  /\ storeIdent \in {Nil, Ident(1, 0, 0, "sha-A", FALSE),
                     Ident(1, 1, 2, "sha-A", FALSE)}
  /\ bkpState \in {0, 1}
  /\ nextKey = 2
  /\ Fresh

\* renewIdentity and botIdentityFromToken for an identity that is not
\* renewable.
Rejoin ==
  \/ RiBuild \/ RiJoinWithoutClient \/ RiJoinWithClient \/ RiReturn
  \/ BftStart \/ BftRegister \/ BftPost

NextKeypair ==
  \/ InitializeWithToken \/ Rejoin \/ renew
  \/ RunStart \/ RunRetry \/ RunRetrySucceeded \/ RunRetryFailed

SpecKeypair == InitKeypair /\ [][NextKeypair]_vars

\* ------------------------------------------------- DatabaseTunnelService
\* db.ch is s.botIdentityReadyCh ("nil", "open" or "closed"), db.ctx whether
\* the context is done, db.wake what ended the blocking select, db.ops the
\* operations performed so far, db.listener the listener of Run and db.ret
\* what buildLocalProxyConfig returned, or "listener_err" when Run returned
\* before calling it.
DbStep(p) == [db EXCEPT !.pc = p]

DbReturn(r) == [db EXCEPT !.pc = "returned", !.ret = r]

\* Lines 975-988: Run uses the configured listener or opens one, and calls
\* buildLocalProxyConfig.
DbOpenListener ==
  /\ db.pc = "run"
  /\ \/ db' = [db EXCEPT !.pc = "start",
                         !.listener = IF @ = "nil" THEN "opened" ELSE @]
     \/ /\ db.listener = "nil"
        /\ db' = DbReturn("listener_err")
  /\ UNCHANGED <<serviceVars, ns, age>>

\* Mutant: the first select goes on to the ping when the channel is open.
DbFirstSelect_noWait ==
  /\ db.pc = "start"
  /\ db' = DbStep("ping")
  /\ UNCHANGED <<serviceVars, ns, age>>

\* Lines 872-875: no channel, or the non-blocking receive finds it closed;
\* otherwise the default case.
DbFirstSelect ==
  /\ db.pc = "start"
  /\ db' = IF db.ch = "open" THEN DbStep("select") ELSE DbStep("ping")
  /\ UNCHANGED <<serviceVars, ns, age>>

\* Lines 877-881: the blocking select.  With one channel ready its case is
\* taken, with both ready either one, with none the goroutine is parked.
DbSecondSelect ==
  /\ db.pc = "select"
  /\ \/ /\ db.ch = "closed"
        /\ db' = DbStep("ping")
     \/ /\ db.ctx
        /\ db' = DbReturn("ctx_err")
     \/ /\ db.ch = "open" /\ ~db.ctx
        /\ db' = DbStep("parked")
  /\ UNCHANGED <<serviceVars, ns, age>>

\* The readiness channel is closed; a goroutine parked on it and not yet
\* woken is woken by it.
DbCloseChannel ==
  /\ db.pc # "off"
  /\ db.ch = "open"
  /\ db' = [db EXCEPT !.ch = "closed",
                      !.wake = IF db.pc = "parked" /\ @ = "" THEN "ready" ELSE @]
  /\ UNCHANGED <<serviceVars, ns, age>>

\* The context is cancelled; a goroutine parked on ctx.Done() and not yet
\* woken is woken by it.
DbCancel ==
  /\ db.pc # "off"
  /\ ~db.ctx
  /\ db' = [db EXCEPT !.ctx = TRUE,
                      !.wake = IF db.pc = "parked" /\ @ = "" THEN "ctx" ELSE @]
  /\ UNCHANGED <<serviceVars, ns, age>>

\* Lines 878-880: the parked goroutine runs the case that woke it.
DbWake ==
  /\ db.pc = "parked"
  /\ db.wake # ""
  /\ db' = IF db.wake = "ready" THEN DbStep("ping") ELSE DbReturn("ctx_err")
  /\ UNCHANGED <<serviceVars, ns, age>>

\* Lines 885-888: s.proxyPinger.Ping.
DbPing ==
  /\ db.pc = "ping"
  /\ \E o \in {"ok", "ping_err"} :
       db' = [db EXCEPT !.ops = Append(@, "ping"),
                        !.pc = IF o = "ok" THEN "addr" ELSE "returned",
                        !.ret = IF o = "ok" THEN @ ELSE o]
  /\ UNCHANGED <<serviceVars, ns, age>>

\* Lines 889-892: proxyPing.ProxyWebAddr, a reading of the ping's answer.
DbProxyWebAddr ==
  /\ db.pc = "addr"
  /\ \E o \in {"ok", "addr_err"} :
       db' = [db EXCEPT !.pc = IF o = "ok" THEN "route" ELSE "returned",
                        !.ret = IF o = "ok" THEN @ ELSE o]
  /\ UNCHANGED <<serviceVars, ns, age>>

\* Lines 900-903: s.getRouteToDatabaseWithImpersonation.
DbRoute ==
  /\ db.pc = "route"
  /\ \E o \in {"ok", "route_err"} :
       db' = [db EXCEPT !.ops = Append(@, "route"),
                        !.pc = IF o = "ok" THEN "cert" ELSE "returned",
                        !.ret = IF o = "ok" THEN @ ELSE o]
  /\ UNCHANGED <<serviceVars, ns, age>>

\* Lines 914-917: s.issueCert.
DbCert ==
  /\ db.pc = "cert"
  /\ \E o \in {"ok", "cert_err"} :
       db' = [db EXCEPT !.ops = Append(@, "cert"),
                        !.pc = IF o = "ok" THEN "assemble" ELSE "returned",
                        !.ret = IF o = "ok" THEN @ ELSE o]
  /\ UNCHANGED <<serviceVars, ns, age>>

\* Lines 943-968: common.ToALPNProtocol, then the configuration, with the
\* cluster CAs when the connection upgrade is required.
DbAssemble ==
  /\ db.pc = "assemble"
  /\ \E o \in {"ok", "ok_upgrade", "alpn_err"} :
       db' = DbReturn(o)
  /\ UNCHANGED <<serviceVars, ns, age>>

InitTunnel ==
  /\ EngineOff
  /\ ns = NsOff
  /\ age = AgeOff
  /\ \E ch \in {"nil", "open", "closed"} : \E done \in BOOLEAN :
     \E l \in {"nil", "given"} :
       db = [pc |-> "run", ch |-> ch, ctx |-> done, wake |-> "",
             listener |-> l, ops |-> <<>>, ret |-> ""]

NextTunnel ==
  \/ DbOpenListener
  \/ DbFirstSelect \/ DbSecondSelect \/ DbWake
  \/ DbPing \/ DbProxyWebAddr \/ DbRoute \/ DbCert \/ DbAssemble
  \/ DbCloseChannel \/ DbCancel

SpecTunnel == InitTunnel /\ [][NextTunnel]_vars

\* --------------------------------------------------------------- ageWriter
\* age.w is the writer a.w points at ("raw", the one given to
\* WithEncryption, or "enc", the one age.Encrypt returned), age.encryptCalls
\* and age.encryptOk count the calls of age.Encrypt and those that
\* succeeded, and age.calls lists the calls made with their results.
NewAgeWriter ==
  [pc |-> "idle", w |-> "raw", initialized |-> FALSE,
   encryptCalls |-> 0, encryptOk |-> 0, calls |-> <<>>]

\* Mutant: the flag is set before the error of age.Encrypt is looked at.
Write_marksFirst(a, e, wr) ==
  IF ~a.initialized
    THEN IF e = "err"
           THEN [a EXCEPT !.encryptCalls = @ + 1,
                          !.initialized = TRUE,
                          !.calls = Append(@, <<"Write", "init_err">>)]
           ELSE [a EXCEPT !.encryptCalls = @ + 1,
                          !.encryptOk = @ + 1,
                          !.w = "enc",
                          !.initialized = TRUE,
                          !.calls = Append(@, <<"Write", wr>>)]
    ELSE [a EXCEPT !.calls = Append(@, <<"Write", wr>>)]

\* Lines 1217-1229: Write, where e is what age.Encrypt answers when it is
\* called and wr what a.w.Write answers.
Write(a, e, wr) ==
  IF ~a.initialized
    THEN IF e = "err"
           THEN [a EXCEPT !.encryptCalls = @ + 1,
                          !.calls = Append(@, <<"Write", "init_err">>)]
           ELSE [a EXCEPT !.encryptCalls = @ + 1,
                          !.encryptOk = @ + 1,
                          !.w = "enc",
                          !.initialized = TRUE,
                          !.calls = Append(@, <<"Write", wr>>)]
    ELSE [a EXCEPT !.calls = Append(@, <<"Write", wr>>)]

\* Lines 1231-1234: Close, where c is what a.w.Close answers.
Close(a, c) == [a EXCEPT !.calls = Append(@, <<"Close", c>>)]

AgeWrite ==
  /\ age.pc = "idle"
  /\ Len(age.calls) < MaxCalls
  /\ \E e \in {"ok", "err"} : \E wr \in {"ok", "write_err"} :
       age' = Write(age, e, wr)
  /\ UNCHANGED <<serviceVars, ns, db>>

AgeClose ==
  /\ age.pc = "idle"
  /\ Len(age.calls) < MaxCalls
  /\ \E c \in {"ok", "close_err"} :
       age' = Close(age, c)
  /\ UNCHANGED <<serviceVars, ns, db>>

InitAge ==
  /\ EngineOff
  /\ ns = NsOff
  /\ db = DbOff
  /\ age = NewAgeWriter

NextAge == AgeWrite \/ AgeClose

SpecAge == InitAge /\ [][NextAge]_vars

\* Goroutines calling unblockWaiters, Ready and IsReady on a new service.
InitGate ==
  /\ now = 1
  /\ faulty = TRUE
  /\ timed = FALSE
  /\ joinSecret = TRUE
  /\ tokenCfg = "tok-A"
  /\ joinMethod = "token"
  /\ storeIdent = Nil
  /\ bkpState = 0
  /\ nextKey = 1
  /\ Fresh

SpecGate == InitGate /\ [][Gate]_vars

\* ================================================================ Claims
\* What loadIdentityFromStore saw, as recorded when it ran.
Loaded == loadInfo.outcome # ""

\* Initialize has chosen between joining, renewing and re-joining.
Decided == path \notin {"", "badparam"}

\* Every request sent so far is a join that no identity authenticates.
OnlyFreshJoins == \A r \in reqs : r.kind = "Register" /\ r.auth = Nil

\* Readiness has been signalled: s.initialized exists and is closed.
ReadinessSignalled == initialized # 0 /\ initialized \in closed

\* Nothing of the service is visible: no facade, no client, no readiness.
NothingPublished ==
  /\ facade = Nil
  /\ client = ""
  /\ closed = {}
  /\ ~onceDone
  /\ ~healthy

\* ---------------------------------------------------------------- C1
\* One step of thread t inside a call it has begun.
ThStep(t) ==
  \/ UwLock(t) \/ UwBody(t) \/ UwUnlock(t)
  \/ ReadyLock(t) \/ ReadyBody(t) \/ ReadyUnlock(t)
  \/ IsReadySelect(t)

\* C1: however many times and from however many threads unblockWaiters is
\* called, the close never panics, s.initialized is the only channel ever
\* closed and it is closed once the first call has run its body; a call that
\* has begun can always go on or waits only for the holder of s.mu, who can
\* go on; and once IsReady has answered true it never answers false again.
C1_ReadinessClosedOnce ==
  /\ ~panicked
  /\ Cardinality(closed) <= 1
  /\ closed \subseteq {initialized} \ {0}
  /\ onceDone <=> closed # {}
  /\ \A t \in Threads : tpc[t] = "uw_unlock" => ReadinessSignalled
  /\ \A t \in Threads :
       tpc[t] # "idle" =>
         \/ ENABLED ThStep(t)
         \/ mu \in Threads \ {t} /\ ENABLED ThStep(mu)
  /\ \A i \in 1 .. Len(isReadyLog) : \A j \in i .. Len(isReadyLog) :
       isReadyLog[i] => isReadyLog[j]

\* A second call of unblockWaiters is inside its critical section after the
\* channel was closed, another call waits for the mutex, and IsReady has
\* already answered true.
C1_Witness ==
  \E t \in Threads : \E u \in Threads \ {t} :
    /\ tpc[t] = "uw_cs" /\ tops[t] = 2 /\ onceDone
    /\ tpc[u] = "uw_lock"
    /\ Len(isReadyLog) > 0 /\ isReadyLog[Len(isReadyLog)]

\* ---------------------------------------------------------------- C2
\* The store held an identity whose recorded token hash differs from the
\* hash of the token configured now.
TokenMismatch ==
  /\ Loaded
  /\ loadInfo.stored # Nil
  /\ loadInfo.stored.hash # ""
  /\ HasToken
  /\ loadInfo.token = "ok"
  /\ Sha256Hex(tokenCfg) # loadInfo.stored.hash

\* C2: when the stored identity was issued for another token than the one
\* configured, Initialize carries no identity out of the load, takes the
\* join-from-scratch path, and neither authenticates a request with the
\* stored identity nor publishes it.
C2_MismatchJoinsFresh ==
  TokenMismatch =>
    /\ loadedIdent = Nil
    /\ ~valid
    /\ path \in {"", "join"}
    /\ OnlyFreshJoins
    /\ oldIdentity = Nil
    /\ authClient = Nil
    /\ facade # loadInfo.stored
    /\ client # "old"

\* Initialize succeeded by a fresh join although the stored identity of the
\* other token was still inside its validity window.
C2_Witness ==
  /\ TokenMismatch
  /\ ValidFlag(loadInfo.stored, loadInfo.at)
  /\ pc = "done" /\ result = "nil" /\ path = "join"
  /\ reqs # {}

\* ---------------------------------------------------------------- C3
\* The identities that exist as a whole: the one read from the store and
\* those returned by a join or a renewal.
CompleteIdents ==
  {history[i].ident : i \in 1 .. Len(history)} \cup ({loadInfo.stored} \ {Nil})

\* C3: whatever a reader got from GetIdentity, at any time relative to the
\* renewals, is one of the identities given to the facade as a whole, and
\* these are identities as they were loaded or issued, never a mixture.
C3_ReadersSeeInstalled ==
  /\ installed \subseteq CompleteIdents
  /\ facade # Nil => facade \in installed
  /\ \A r \in Readers :
       (rpc[r] = "unlock" \/ got[r] # Nil) => got[r] \in installed

\* A renewal replaced the identity between two readers: one holds the
\* identity from before the renewal, the other the renewed one.
C3_Witness ==
  /\ cycles >= 1
  /\ \E r \in Readers : \E q \in Readers \ {r} :
       /\ got[r] # Nil /\ got[q] # Nil
       /\ got[r] # got[q]
       /\ got[q] = facade

\* ---------------------------------------------------------------- C4
\* The identities that existed before the i-th one was issued.
EarlierIdents(i) ==
  {history[j].ident : j \in 1 .. i - 1} \cup {history[j].from : j \in 1 .. i}
    \cup {loadInfo.stored}

\* C4: an identity obtained by renewing against the auth server carries a
\* private key that no earlier identity carried, in particular not the key
\* of the identity it renews.
C4_RenewalUsesFreshKey ==
  \A i \in 1 .. Len(history) :
    history[i].via = "auth" =>
      /\ history[i].ident.key # history[i].from.key
      /\ \A e \in EarlierIdents(i) : e.key # history[i].ident.key

\* Two renewals in a row, the second renewing the result of the first.
C4_Witness ==
  /\ Len(history) >= 2
  /\ history[1].via = "auth"
  /\ history[2].via = "auth"
  /\ history[2].from = history[1].ident

\* ---------------------------------------------------------------- C5
\* Initialize is over after the re-join for an expired identity failed.
ExpiredRejoinFailed ==
  /\ pc = "done"
  /\ loadedIdent # Nil
  /\ After(loadInfo.at, loadedIdent.na)
  /\ path = "rejoin"
  /\ err # ""

\* C5 as stated: whenever the re-join for an expired stored identity fails,
\* Initialize returns nil with the old identity in the facade and a client
\* built from it.
C5_AsStated ==
  ExpiredRejoinFailed =>
    /\ result = "nil"
    /\ facade = loadedIdent
    /\ client = "old"

\* C5: when the re-join for an expired stored identity fails, Initialize
\* never returns the error of the join: it returns nil with the old
\* identity in the facade and a client built from it if that client could be
\* built, and the error of building the client, with nothing published,
\* if not.
C5_FallbackToOldIdentity ==
  ExpiredRejoinFailed =>
    \/ /\ result = "nil"
       /\ facade = loadedIdent
       /\ client = "old"
    \/ /\ result = "client_err"
       /\ NothingPublished

\* The fallback happened: nil returned on the expired identity.
C5_Witness ==
  /\ ExpiredRejoinFailed
  /\ result = "nil"
  /\ facade = loadedIdent
  /\ client = "old"

\* ---------------------------------------------------------------- C6
\* The store was empty when Initialize looked (or is, before it looks).
StoreWasEmpty == IF Loaded THEN loadInfo.stored = Nil ELSE storeIdent = Nil

\* C6: with an empty store and no join token configured, Initialize ends
\* with BadParameter and nothing else: no request is sent, nothing is
\* written, the facade and the client stay unset and readiness is not
\* signalled.
C6_NoIdentityNoToken ==
  (StoreWasEmpty /\ ~HasToken) =>
    /\ pc \in {"init", "init_decide", "done"}
    /\ pc = "done" => result = "BadParameter"
    /\ path \in {"", "badparam"}
    /\ reqs = {}
    /\ authClient = Nil
    /\ storeIdent = Nil
    /\ bkpState = 0
    /\ NothingPublished

\* Initialize returned BadParameter on an empty store without a token.
C6_Witness ==
  /\ StoreWasEmpty /\ ~HasToken
  /\ loadInfo.outcome = "notfound"
  /\ pc = "done"
  /\ result = "BadParameter"

\* ---------------------------------------------------------------- C7
\* Initialize is over after the join from scratch failed.
FreshJoinFailed == pc = "done" /\ path = "join" /\ err # ""

\* What a failed join from scratch leaves behind apart from the store.
FreshJoinFailureIsFatal ==
  /\ result = "joining with token"
  /\ NothingPublished
  /\ storeIdent = loadInfo.stored

\* C7 as stated: a failed join from scratch makes Initialize return the
\* error with the facade unset, readiness not signalled and nothing written
\* to the store.
C7_AsStated ==
  FreshJoinFailed =>
    /\ FreshJoinFailureIsFatal
    /\ bkpState = 0

\* C7: a failed join from scratch makes Initialize return the error with
\* the facade unset, readiness not signalled and the persisted identity
\* untouched; the only write that can have happened is the bound-keypair
\* client state, stored after a Register that itself succeeded.
C7_FreshJoinFailureFatal ==
  FreshJoinFailed =>
    /\ FreshJoinFailureIsFatal
    /\ bkpState # 0 => joinMethod = "bound_keypair" /\ err = "assemble_err"

\* The join was attempted with a request to the server and failed.
C7_Witness ==
  /\ FreshJoinFailed
  /\ reqs # {}
  /\ result = "joining with token"

\* ---------------------------------------------------------------- C8
\* The request of a join with the given token that nothing authenticates.
FreshJoinRequest(tok) == [kind |-> "Register", auth |-> Nil, token |-> tok]

\* The second run: restarted with tok-B after a first run with tok-A
\* succeeded, and the token is readable.
SecondRunWithNewToken ==
  /\ restarts = 1
  /\ prev.token = "tok-A"
  /\ prev.result = "nil"
  /\ tokenCfg = "tok-B"
  /\ Loaded
  /\ loadInfo.token = "ok"

\* C8: started on an empty store with token tok-A, Initialize joins from
\* scratch and, when it succeeds, has persisted the identity it got,
\* published it and signalled readiness; restarted with tok-B on that
\* store, it discards the stored identity and joins from scratch again,
\* never renewing with the identity of tok-A.
C8_TokenChangeRejoins ==
  /\ restarts = 0 =>
       /\ path \in {"", "join"}
       /\ reqs \subseteq {FreshJoinRequest("tok-A")}
       /\ (pc = "done" /\ result = "nil") =>
            /\ reqs = {FreshJoinRequest("tok-A")}
            /\ storeIdent # Nil
            /\ storeIdent = history[Len(history)].ident
            /\ storeIdent.hash = Sha256Hex("tok-A")
            /\ facade = storeIdent
            /\ client = "new"
            /\ ReadinessSignalled
  /\ SecondRunWithNewToken =>
       /\ loadInfo.stored = prev.stored
       /\ loadInfo.stored # Nil
       /\ loadedIdent = Nil
       /\ path \in {"", "join"}
       /\ reqs \subseteq {FreshJoinRequest("tok-B")}
       /\ authClient = Nil
       /\ oldIdentity = Nil
       /\ (pc = "done" /\ result = "nil") =>
            /\ storeIdent # prev.stored
            /\ storeIdent.hash = Sha256Hex("tok-B")
            /\ facade = storeIdent

\* The second run has joined from scratch with tok-B and succeeded.
C8_Witness ==
  /\ SecondRunWithNewToken
  /\ pc = "done" /\ result = "nil" /\ path = "join"
  /\ storeIdent.hash = Sha256Hex("tok-B")

\* ---------------------------------------------------------------- C9
\* C9: the validity flag computed by the load is true exactly when the
\* clock read at the load lies in [NotBefore, NotAfter], both ends
\* included; without a loaded identity the flag is false.
C9_ValidityWindowInclusive ==
  Loaded =>
    IF loadedIdent = Nil
      THEN ~valid
      ELSE valid <=> (loadedIdent.nb <= loadInfo.at /\ loadInfo.at <= loadedIdent.na)

\* An identity loaded exactly at its NotAfter and found valid.
C9_Witness ==
  /\ Loaded
  /\ loadedIdent # Nil
  /\ loadInfo.at = loadedIdent.na
  /\ loadedIdent.nb < loadedIdent.na
  /\ valid

\* --------------------------------------------------------------- C10
\* C10: a loaded identity found valid is handed to renewIdentity, which
\* authenticates with it; the one request not authenticated by it is the
\* join renewIdentity sends for a non-renewable identity that its own,
\* later reading of the clock finds expired.  A loaded identity found not
\* valid is never used to authenticate: Initialize joins with the token
\* alone.
C10_ValidRenewsInvalidRejoins ==
  (Decided /\ loadedIdent # Nil) =>
    IF valid
      THEN /\ path = "renew"
           /\ oldIdentity = loadedIdent
           /\ authClient \in {Nil, loadedIdent}
           /\ \A r \in reqs :
                \/ r.auth = loadedIdent
                \/ /\ r.kind = "Register" /\ r.auth = Nil
                   /\ ~loadedIdent.renewable
                   /\ After(now, loadedIdent.na)
      ELSE /\ path = "rejoin"
           /\ oldIdentity = Nil
           /\ authClient = Nil
           /\ OnlyFreshJoins

\* A request authenticated by the valid loaded identity was sent.
C10_WitnessValid ==
  /\ loadedIdent # Nil /\ valid
  /\ path = "renew"
  /\ \E r \in reqs : r.auth = loadedIdent

\* --------------------------------------------------------------- C11
\* C11: on the success path of Initialize the new identity is in the store
\* before it is in the facade, it is in both before readiness is signalled,
\* and readiness is signalled before Healthy is reported; Initialize
\* returns nil on that path only after all four.
C11_PersistPublishSignalReport ==
  /\ client = "new" =>
       /\ newIdentity # Nil
       /\ facade = newIdentity
       /\ storeIdent = newIdentity
  /\ ReadinessSignalled => client = "new"
  /\ healthy => ReadinessSignalled
  /\ (pc = "done" /\ result = "nil" /\ client = "new") => healthy
  /\ pc = "init_build" => (storeIdent = newIdentity /\ facade = Nil)
  /\ pc = "init_unblock" => (client = "new" /\ ~ReadinessSignalled)
  /\ pc = "init_report" => (ReadinessSignalled /\ ~healthy)

\* Initialize returned nil with a new identity persisted, published,
\* readiness signalled and Healthy reported.
C11_Witness ==
  /\ pc = "done" /\ result = "nil"
  /\ healthy /\ ReadinessSignalled
  /\ facade = newIdentity /\ storeIdent = newIdentity
  /\ loadInfo.stored # newIdentity

\* --------------------------------------------------------- C12, C13, C14
\* Run is between two calls of renew, or has returned.
BetweenCycles ==
  pc \in {"run_retry_wait", "run_retry_ret", "run_interval",
          "run_interval_ret", "run_backoff", "run_done"}

\* renew has just returned to Run.
CycleReturned == pc \in {"run_retry_ret", "run_interval_ret"}

\* The current call of renew has replaced the identity of the facade.
PublishedInCycle == renewInfo.verify = "ok" /\ facade # renewInfo.facade

\* C12: in a renewal cycle the facade receives the new identity only once
\* the store holds it.
C12_AsStated == PublishedInCycle => storeIdent = facade

\* C13: a renewal cycle that returns an error leaves the facade and the
\* store as they were when it began, so that between cycles the facade
\* holds what the store holds.
C13_AsStated ==
  /\ (CycleReturned /\ renewErr # "") =>
       /\ facade = renewInfo.facade
       /\ storeIdent = renewInfo.store
  /\ BetweenCycles => facade = storeIdent

\* C14: a renewal cycle whose writability check fails returns the error of
\* the check at once: no client is built, no request is sent, and the
\* facade and the store are as they were when the cycle began.
C14_UnwritableStoreAbortsCycle ==
  renewInfo.verify = "failed" =>
    /\ BetweenCycles \/ pc = "rn_start"
    /\ renewErr = "verify_err"
    /\ ~renewInfo.built
    /\ ~connOpen
    /\ reqs = renewInfo.reqs
    /\ facade = renewInfo.facade
    /\ storeIdent = renewInfo.store

\* The cycle after one that failed the writability check has run to its
\* end and succeeded.
C14_Witness ==
  /\ CycleReturned
  /\ renewErr = ""
  /\ renewInfo.before = "failed"
  /\ renewInfo.verify = "ok"
  /\ storeIdent = newIdentity
  /\ facade = newIdentity

\* --------------------------------------------------------------- C15
\* renewIdentity has been called (by Initialize or by renew) and no later
\* call of renew has begun.
RenewIdentityCalled == renewInfo.verify \in {"ok", "n/a"}

\* The requests sent since the current call of renewIdentity began.
RequestsOfCall == reqs \ renewInfo.reqs

\* renewIdentity has returned to its caller.
RenewIdentityReturned == pc \in {"init_after", "rn_after"}

\* C15: renewIdentity called with a renewable identity, expired or not,
\* never enters the join handshake and never reaches the expiry test: all
\* it sends is GenerateUserCerts over the client that identity
\* authenticates, and when that fails it returns the error without an
\* identity.
C15_RenewableOnlyThroughAuth ==
  (RenewIdentityCalled /\ oldIdentity.renewable) =>
    /\ pc \notin {"bft_start", "bft_register", "bft_post"}
    /\ renewInfo.checkedAt = -1
    /\ \A r \in RequestsOfCall :
         r.kind = "GenerateUserCerts" /\ r.auth = oldIdentity
    /\ (RenewIdentityReturned /\ err # "") => retIdent = Nil

\* renewIdentity was called with a renewable identity that had already
\* expired, sent GenerateUserCerts and returned the error.
C15_Witness ==
  /\ RenewIdentityCalled /\ oldIdentity.renewable
  /\ After(renewInfo.at, oldIdentity.na)
  /\ RenewIdentityReturned /\ err # ""
  /\ RequestsOfCall # {}

\* The expiry of the identity being renewed is known and the expiry test of
\* the call found the clock at or before it.
UsableAtCheck ==
  /\ Expiry(oldIdentity)[2]
  /\ renewInfo.checkedAt <= Expiry(oldIdentity)[1]

\* C16: renewIdentity called with a non-renewable identity sends nothing
\* before its expiry test; after the test the join handshake is given the
\* client authenticated by that identity if and only if the expiry is known
\* and the clock read by the test is at or before NotAfter, and no client
\* otherwise; every request of the call is a Register carrying exactly that
\* authentication, so an identity expired at the test authenticates none.
C16_AuthenticatedJoinIffUnexpired ==
  (RenewIdentityCalled /\ ~oldIdentity.renewable) =>
    /\ renewInfo.checkedAt = -1 => RequestsOfCall = {}
    /\ renewInfo.checkedAt # -1 =>
         /\ bftClient = IF UsableAtCheck THEN oldIdentity ELSE Nil
         /\ \A r \in RequestsOfCall :
              /\ r.kind = "Register"
              /\ r.auth = bftClient
              /\ r.auth # Nil => ~After(renewInfo.checkedAt, r.auth.na)

\* The expiry test ran exactly at NotAfter and a Register authenticated by
\* the identity was sent.
C16_Witness ==
  /\ RenewIdentityCalled /\ ~oldIdentity.renewable
  /\ renewInfo.checkedAt = oldIdentity.na
  /\ \E r \in RequestsOfCall : r.kind = "Register" /\ r.auth = oldIdentity

\* --------------------------------------------------------------- C17
\* Initialize returned nil after persisting and publishing a new identity.
InitializePersistedNew == pc = "done" /\ result = "nil" /\ client = "new"

\* C17 as stated: with a join secret configured, every identity issued, by
\* a join or by a direct renewal, carries the hash of that secret, and so
\* does the identity a successful Initialize has persisted.
C17_AsStated ==
  HasToken =>
    /\ \A i \in DOMAIN history :
         history[i].ident.hash = Sha256Hex(tokenCfg)
    /\ InitializePersistedNew => storeIdent.hash = Sha256Hex(tokenCfg)

\* C17: every identity issued by a join handshake (fresh join, lightweight
\* renewal) carries the hash of the configured join secret; an identity
\* issued by the direct renewal of a renewable identity carries the token
\* hash of the identity it renews.  After a successful Initialize with a
\* configured secret the persisted identity's hash is the hash of that
\* secret, except after a direct renewal of a stored identity whose hash was
\* empty or was not compared because the secret could not be read: then it
\* is the stored identity's hash.
C17_TokenHashOfIssued ==
  /\ \A i \in DOMAIN history :
       /\ history[i].via = "join" =>
            history[i].ident.hash = Sha256Hex(tokenCfg)
       /\ history[i].via = "auth" =>
            history[i].ident.hash = history[i].from.hash
  /\ (HasToken /\ InitializePersistedNew) =>
       \/ storeIdent.hash = Sha256Hex(tokenCfg)
       \/ /\ path = "renew" /\ loadInfo.stored.renewable
          /\ storeIdent.hash = loadInfo.stored.hash
          /\ loadInfo.stored.hash = "" \/ loadInfo.token = "err"

\* A direct renewal of a stored identity without token hash succeeded and
\* the identity without hash was persisted, with a secret configured.
C17_Witness ==
  /\ HasToken /\ InitializePersistedNew
  /\ path = "renew"
  /\ loadInfo.stored.hash = ""
  /\ storeIdent.hash = "" /\ storeIdent # loadInfo.stored
  /\ \E i \in DOMAIN history : history[i].via = "auth"

\* --------------------------------------------------------------- C18
\* Run is in its startup retry loop: waiting, or in an attempt the loop
\* made, or looking at the result of one.
InRetryPhase ==
  \/ pc \in {"run_retry_wait", "run_retry_ret"}
  \/ stack # <<>> /\ stack[Len(stack)] = "run_retry_ret"

\* The step that leaves the retry loop because an attempt succeeded.
LeavesRetryBySuccess ==
  /\ pc = "run_retry_ret" /\ renewErr = ""
  /\ pc' = "run_interval"
  /\ ReadinessSignalled'
  /\ runResult' = ""

\* The step that leaves the retry loop because the context is cancelled.
LeavesRetryByCancel ==
  /\ pc = "run_retry_wait" /\ ctxDone
  /\ pc' = "run_done"
  /\ runResult' = "nil"

\* C18: Run started while readiness is not signalled enters the retry loop;
\* every step taken in the loop stays in it with Run not returned, except
\* the step after a successful attempt, which signals readiness and enters
\* the steady-state loop, and the step that sees the context cancelled,
\* with which Run returns nil.  After a failed attempt, whatever its number
\* and its cause, the loop waits again.
C18_RetryLoopExits ==
  [][/\ (pc = "done" /\ pc' # "done" /\ ~ReadinessSignalled) => InRetryPhase'
     /\ InRetryPhase =>
          \/ InRetryPhase' /\ runResult' = ""
          \/ LeavesRetryBySuccess
          \/ LeavesRetryByCancel
     /\ (pc = "run_retry_ret" /\ renewErr # "") =>
          pc' \in {"run_retry_ret", "run_retry_wait"}]_vars

\* The loop waits again after an attempt that found the store unwritable,
\* the attempts no longer being counted.
C18_Witness ==
  /\ pc = "run_retry_wait"
  /\ cycles = MaxCycles
  /\ renewInfo.verify = "failed" /\ renewInfo.before = "failed"
  /\ renewErr # ""
  /\ runResult = ""

\* --------------------------------------------------------------- C20
\* C20: in the steady-state loop the consecutive failed renewal cycles are
\* counted; the count is zero whenever the loop awaits its interval, that
\* is after every successful cycle; Run has returned an error exactly when
\* the count has exceeded botIdentityRenewalRetryLimit, and the count never
\* goes further, so the loop does not go on over cycles that keep failing.
C20_CeilingIsFatal ==
  /\ failures \in 0 .. botIdentityRenewalRetryLimit + 1
  /\ runResult = "error" <=> failures > botIdentityRenewalRetryLimit
  /\ runResult = "error" => pc = "run_done" /\ renewErr # ""
  /\ pc = "run_interval" => failures = 0
  /\ pc = "run_backoff" =>
       failures \in 1 .. botIdentityRenewalRetryLimit /\ renewErr # ""

\* Run has returned the error of the cycle that exceeded the limit, after
\* an earlier run of failures had been ended by a success.
C20_Witness ==
  /\ runResult = "error"
  /\ pc = "run_done"
  /\ failures = botIdentityRenewalRetryLimit + 1
  /\ cycles >= 2

\* --------------------------------------------------------------- C19
\* Initialize has fallen back to the identity of the store: it returned nil
\* without signalling readiness.
Degraded == result = "nil" /\ ~ReadinessSignalled

\* A new identity is persisted and published and readiness is signalled.
Recovered ==
  /\ ReadinessSignalled
  /\ facade # loadedIdent
  /\ storeIdent = facade

\* The identity the engine runs on is renewable and has expired.
ExpiredRenewable ==
  facade # Nil /\ facade.renewable /\ After(now, facade.na)

RunReturnedNil == pc = "run_done" /\ runResult = "nil"

\* C21: once the context is cancelled, wherever Run is (about to start, in
\* the wait of either loop, in a backoff, or in the middle of a renewal
\* attempt), Run eventually returns, and what it returns is nil.
C21_CancelledRunReturnsNil == ctxDone ~> RunReturnedNil

\* The context was cancelled in the middle of an attempt of the steady-state
\* loop that followed a failed one, and Run has returned nil.
C21_Witness ==
  /\ ctxDone
  /\ RunReturnedNil
  /\ renewInfo.cancelled
  /\ failures > 0

\* --------------------------------------------------------------- C22
\* Run is in one of its waits: the backoff of the startup loop, the interval
\* (or reload) of the steady-state loop, the backoff between its attempts.
RunWaits == pc \in {"run_retry_wait", "run_interval", "run_backoff"}

SteadyCycleBegins ==
  pc # "rn_start" /\ pc' = "rn_start" /\ stack' = <<"run_interval_ret">>

\* The step enters the steady-state loop: from the start of Run or from the
\* startup retry loop.
SteadyLoopEntered ==
  pc \in {"done", "run_retry_ret"} /\ pc' \notin {pc, "run_retry_wait", "run_done"}

\* C23: the steady-state loop is entered into its wait, no cycle being run
\* and no request sent by that step; a cycle of the loop begins only out of
\* a wait that the context has not ended; and in the wait for the interval
\* both the elapse of the interval and a reload signal begin a cycle.
C23_CycleOnIntervalOrReload ==
  [][/\ SteadyLoopEntered =>
          pc' = "run_interval" /\ UNCHANGED <<cycles, reqs, renewInfo, stack>>
     /\ SteadyCycleBegins =>
          pc \in {"run_interval", "run_backoff"} /\ ~ctxDone
     /\ (pc = "run_interval" /\ ~ctxDone /\ cycles < MaxCycles) =>
          ENABLED RunInterval /\ ENABLED RunReload]_vars

\* Run found the service ready, entered the steady-state loop, and the
\* first cycle, begun out of the wait, has sent its request.
C23_Witness ==
  /\ path = "renew" /\ healthy
  /\ cycles = 1
  /\ stack # <<>> /\ stack[Len(stack)] = "run_interval_ret"
  /\ renewInfo.verify = "ok"
  /\ RequestsOfCall # {}

\* --------------------------------------------------------------- C24
\* renewIdentity is running past the construction of its client.
InRenewIdentity ==
  \/ pc \in {"ri_branch", "ri_ret"}
  \/ \E i \in DOMAIN stack : stack[i] = "ri_ret"

\* C24: the connection renewIdentity builds is open only while that call of
\* renewIdentity runs, and it was built by that call: once renewIdentity has
\* returned, by whichever path, and between renewal cycles, no renewal
\* connection is open; and every authenticated request of a call goes
\* through the client that call built.
C24_RenewalConnectionClosed ==
  /\ connOpen => InRenewIdentity /\ renewInfo.built
  /\ (RenewIdentityReturned \/ BetweenCycles \/ pc = "done") => ~connOpen
  /\ \A r \in RequestsOfCall : r.auth # Nil => renewInfo.built

\* A renewal cycle built its client, discarded it for the join because the
\* identity had expired, failed, and has returned with the client closed.
C24_Witness ==
  /\ pc = "rn_after"
  /\ renewInfo.built /\ authClient # Nil
  /\ renewInfo.checkedAt # -1 /\ bftClient = Nil
  /\ err # ""
  /\ ~connOpen

\* --------------------------------------------------------------- C25
\* The load of the stored identity failed, with NotFound or otherwise.
LoadFailed == Loaded /\ loadInfo.outcome # "ok"

\* C25: after a failed load, NotFound or not, whatever the store holds,
\* there is no loaded identity and it is not valid; Initialize then does
\* what it does on an empty store: BadParameter without a join token, and
\* with one a join from scratch, no request being authenticated by an
\* identity, whose failure is returned with nothing published.
C25_LoadFailureIsEmptyStore ==
  LoadFailed =>
    /\ loadedIdent = Nil /\ ~valid
    /\ path \in {"", IF HasToken THEN "join" ELSE "badparam"}
    /\ oldIdentity = Nil /\ authClient = Nil
    /\ OnlyFreshJoins
    /\ (pc = "done" /\ path = "join" /\ err # "") =>
         result = "joining with token" /\ NothingPublished

\* The store held a valid identity that could not be read, and Initialize
\* has joined from scratch and succeeded.
C25_Witness ==
  /\ loadInfo.outcome = "error"
  /\ loadInfo.stored # Nil /\ ValidFlag(loadInfo.stored, loadInfo.at)
  /\ pc = "done" /\ path = "join" /\ result = "nil"
  /\ storeIdent # loadInfo.stored

\* --------------------------------------------------------------- C26
\* The load found an identity that was not valid at the time, expired or
\* not yet valid, and no join token is configured.
InvalidIdentityNoToken ==
  /\ Loaded /\ ~HasToken
  /\ loadInfo.stored # Nil
  /\ ~ValidFlag(loadInfo.stored, loadInfo.at)

\* C26: with a stored identity that is expired or not yet valid and no join
\* token, Initialize sends no request and ends with BadParameter; it does
\* not fall back on the stored identity: the facade and the client stay
\* unset, readiness is not signalled and the store is left as it was.
C26_InvalidIdentityNoToken ==
  InvalidIdentityNoToken =>
    /\ pc \in {"init_decide", "done"}
    /\ path \in {"", "badparam"}
    /\ reqs = {}
    /\ NothingPublished
    /\ storeIdent = loadInfo.stored
    /\ pc = "done" => result = "BadParameter"

\* Initialize has ended with BadParameter holding a loaded identity that is
\* not yet valid.
C26_Witness ==
  /\ InvalidIdentityNoToken
  /\ loadedIdent # Nil
  /\ Before(loadInfo.at, loadedIdent.nb)
  /\ pc = "done" /\ result = "BadParameter"

\* --------------------------------------------------------------- C27
\* The byte strings hasTokenChanged is given: no hash, or the hex digest of
\* a token.
TokenHashBytes == {""} \cup {Sha256Hex(t) : t \in Tokens}

\* The load read an identity whose token hash is empty.
LoadedEmptyHash ==
  /\ Loaded /\ loadInfo.outcome = "ok"
  /\ loadInfo.stored.hash = ""

\* C27: hasTokenChanged(a, b) is true exactly when both byte strings are
\* non-empty and differ, and it is symmetric; so a load that reads an
\* identity with an empty token hash hands that identity on, whatever
\* token is configured.
C27_HasTokenChanged ==
  /\ \A a, b \in TokenHashBytes :
       /\ hasTokenChanged(a, b) <=> (a # "" /\ b # "" /\ a # b)
       /\ hasTokenChanged(a, b) <=> hasTokenChanged(b, a)
  /\ LoadedEmptyHash =>
       /\ loadedIdent = loadInfo.stored
       /\ valid = ValidFlag(loadInfo.stored, loadInfo.at)

\* An identity with an empty token hash was read with a token configured
\* and read, kept, and renewed with.
C27_Witness ==
  /\ LoadedEmptyHash
  /\ HasToken /\ loadInfo.token = "ok"
  /\ loadedIdent # Nil /\ valid
  /\ path = "renew"

\* --------------------------------------------------------------- C28
\* The load read the stored identity, and then failed to read the
\* configured token.
TokenReadFailed ==
  /\ Loaded /\ HasToken
  /\ loadInfo.outcome = "ok" /\ loadInfo.token = "err"

\* C28: when the configured token cannot be read while loading, the stored
\* identity is handed on, whatever its token hash, with the validity flag
\* that its certificate dates give at the time of the load.
C28_TokenReadFailureKeepsIdentity ==
  TokenReadFailed =>
    /\ loadedIdent = loadInfo.stored
    /\ loadedIdent # Nil
    /\ valid = ValidFlag(loadInfo.stored, loadInfo.at)

\* The token read failed on an identity issued for another token, which was
\* kept, found valid and renewed with.
C28_Witness ==
  /\ TokenReadFailed
  /\ loadInfo.stored.hash # ""
  /\ loadInfo.stored.hash # Sha256Hex(tokenCfg)
  /\ loadedIdent = loadInfo.stored /\ valid
  /\ path = "renew"

\* --------------------------------------------------------------- C29
\* Initialize has returned nil on the old identity, and Run has not begun.
FellBack == pc = "done" /\ result = "nil" /\ client = "old"

\* Run is in its steady-state loop, or in a renewal called from it.
InSteadyPhase ==
  \/ pc \in {"run_interval", "run_interval_ret", "run_backoff"}
  \/ stack # <<>> /\ stack[Len(stack)] = "run_interval_ret"

\* Readiness, health and the stored identity after a fallback.
FallbackKeepsQuiet ==
  FellBack =>
    /\ ~ReadinessSignalled
    /\ ~healthy
    /\ storeIdent = loadInfo.stored
    /\ ~IsReadyNow

\* C29 as stated: after a fallback nothing at all was written to the store,
\* the bound keypair client state (0 when Initialize began) included.
C29_AsStated == FallbackKeepsQuiet /\ (FellBack => bkpState = 0)

\* C29: after a fallback on the old identity readiness is not signalled,
\* Healthy is not reported, IsReady is false and the stored identity is the
\* one that was loaded; the only write there may have been is that of the
\* bound keypair client state, by a re-join whose Register succeeded.  The
\* Run that follows goes to the wait of the startup retry loop, and the
\* steady-state loop is only ever entered with readiness signalled.
C29_FallbackNotReady ==
  /\ [](/\ FallbackKeepsQuiet
        /\ (FellBack /\ bkpState # 0) =>
             /\ joinMethod = "bound_keypair"
             /\ path = "rejoin"
             /\ regResult.key # 0
        /\ InSteadyPhase => ReadinessSignalled)
  /\ [][(FellBack /\ pc' # pc) => pc' = "run_retry_wait"]_vars

\* After a fallback Run went through the startup retry loop, where a
\* renewal succeeded, and is now in the steady-state loop.
C29_Witness ==
  /\ loadInfo.stored # Nil
  /\ installed = {loadInfo.stored, facade}
  /\ facade # loadInfo.stored
  /\ path \in {"renew", "rejoin"}
  /\ pc = "run_interval"
  /\ ReadinessSignalled

\* --------------------------------------------------------------- C30
\* Initialize obtained a new identity and then failed to save it or to
\* build the client around it.
IssuedThenFailed ==
  /\ pc = "done" /\ err = ""
  /\ result \in {"save_err", "client_err"}

\* C30: when the join or renewal of Initialize succeeded and saving the new
\* identity or building its client failed, Initialize returns that error
\* with the facade and the client unset and readiness not signalled, also
\* when an identity had been loaded; a return on the old identity happens
\* only after the join or renewal itself failed.
C30_PersistFailureIsFatal ==
  /\ IssuedThenFailed =>
       /\ Decided /\ newIdentity # Nil
       /\ NothingPublished
       /\ ~ReadinessSignalled /\ ~IsReadyNow
       /\ result = "save_err" => storeIdent = loadInfo.stored
  /\ (pc = "done" /\ client = "old") =>
       /\ err # "" /\ result = "nil"
       /\ loadedIdent # Nil /\ facade = loadedIdent

\* The renewal with a loaded, valid identity succeeded and the save failed.
C30_Witness ==
  /\ IssuedThenFailed
  /\ result = "save_err"
  /\ loadedIdent # Nil /\ valid
  /\ path = "renew"
  /\ facade = Nil

\* --------------------------------------------------------------- C31
\* The step that closes the readiness channel.
GateCloses == closed = {} /\ closed' # {}

\* The identity of the last issuance recorded, Nil if there was none.
LastIssued == IF history = <<>> THEN Nil ELSE history[Len(history)].ident

\* C31: whenever the readiness channel is closed the facade is set; and the
\* step that closes it, in Initialize or in the startup retry loop of Run,
\* finds in the facade the identity that was issued last, which is not the
\* one loaded from the store and is the one the store now holds.
C31_ReadyMeansFreshAndPersisted ==
  /\ [](closed # {} => facade # Nil /\ client # "")
  /\ [][GateCloses =>
          /\ pc \in {"init_unblock", "run_retry_ret"}
          /\ facade' # Nil
          /\ facade' = LastIssued'
          /\ facade' # loadInfo.stored
          /\ facade' = storeIdent']_vars

\* The gate was closed by the startup retry loop, after a fallback.
C31_Witness ==
  /\ closed # {}
  /\ client = "old"
  /\ pc = "run_interval"
  /\ facade = storeIdent
  /\ facade = LastIssued
  /\ loadInfo.stored # Nil

\* --------------------------------------------------------------- C32
\* Thread t holds a channel that Ready returned to it.
HoldsChannel(t) == tch[t] # 0

\* A receive from the channel thread t holds would not block.
Woken(t) == tch[t] \in closed

\* C32: every channel Ready has returned is the one channel s.initialized,
\* which never changes once made, whether Ready or unblockWaiters made it
\* and however their calls interleave; so from the moment readiness is
\* signalled a receive from any channel obtained before or after it does
\* not block.
C32_OneChannelNoLostWakeup ==
  /\ [](\A t \in Threads :
          HoldsChannel(t) =>
            /\ tch[t] = initialized
            /\ ReadinessSignalled => Woken(t))
  /\ [][/\ initialized # 0 => initialized' = initialized
        /\ \A t \in Threads : HoldsChannel(t) => tch'[t] = tch[t]
        /\ \A t \in Threads :
             (HoldsChannel(t) /\ closed = {} /\ closed' # {}) => Woken(t)']_vars

\* A thread whose one call, IsReady, answered false holds a channel that
\* the other thread, which never called Ready, has closed since.
C32_Witness ==
  \E t \in Threads : \E u \in Threads \ {t} :
    /\ HoldsChannel(t) /\ tops[t] = 1 /\ tpc[t] = "idle"
    /\ isReadyLog = <<FALSE>>
    /\ ~HoldsChannel(u)
    /\ ReadinessSignalled /\ Woken(t)

\* --------------------------------------------------------------- C33
\* Initialize has returned nil, on a new identity or on the old one.
InitializeSucceeded == result = "nil"

\* C33: once Initialize has returned nil the service has a Facade object
\* and a client built around that object, and neither s.facade nor
\* s.client is assigned again: the only change is that of the identity
\* inside the Facade, made by renew's Set, so the client handed out by
\* GetClient stays the same and stays bound to the Facade that holds the
\* current identity.
C33_RenewKeepsFacadeAndClient ==
  /\ [](InitializeSucceeded =>
          /\ facadePtr # 0 /\ client # ""
          /\ clientFacade = facadePtr)
  /\ [][InitializeSucceeded =>
          /\ UNCHANGED <<facadePtr, clientFacade, client>>
          /\ facade' # facade => pc = "rn_set" /\ facade' = newIdentity]_vars

\* After a fallback, a renewal of the steady-state loop has put a second
\* new identity into the Facade made by Initialize.
C33_Witness ==
  /\ InitializeSucceeded
  /\ client = "old" /\ facadePtr = 1 /\ clientFacade = 1
  /\ Cardinality(installed) = 3
  /\ facade # loadedIdent
  /\ pc = "run_interval_ret" /\ renewErr = ""

\* --------------------------------------------------------------- C34
\* The startup retry loop is in a wait, or in the attempt that followed one.
RetryWaited == pc = "run_retry_wait" \/ InRetryPhase

\* C34: in the startup retry loop every renewal attempt begins from a wait,
\* the first one too; the first wait is of 1 second before jitter, each
\* further wait of twice the one before or of 1 minute if that is less, and
\* the wait itself is never longer than that and never shorter than half
\* of it, so never more than 1 minute and the first never more than 1
\* second.
C34_BackoffBeforeEveryAttempt ==
  /\ [](RetryWaited =>
          /\ attempt >= 1
          /\ wait.dur <= wait.base
          /\ 2 * wait.dur >= wait.base
          /\ wait.dur > 0 /\ wait.dur <= 60000
          /\ attempt = 1 => wait.dur <= 1000)
  /\ [][/\ (pc # "rn_start" /\ pc' = "rn_start") => pc = "run_retry_wait"
        /\ (pc = "done" /\ pc' # pc /\ ~IsReadyNow) =>
             /\ pc' = "run_retry_wait"
             /\ wait'.base = 1000
        /\ (pc = "run_retry_ret" /\ pc' = "run_retry_wait") =>
             wait'.base = IF 2 * wait.base > 60000 THEN 60000
                                                   ELSE 2 * wait.base]_vars

\* The seventh wait, the first one that the maximum shortens, with the
\* jitter taking half of it.
C34_Witness ==
  /\ pc = "run_retry_wait"
  /\ attempt = 7
  /\ wait = [base |-> 60000, dur |-> 30000]

\* --------------------------------------------------------------- C35
\* NewService has returned.
NewServiceReturned == ns.pc = "returned"

\* What makes a configuration invalid.
InvalidConfig(cfg) ==
  \/ ~cfg.conn
  \/ cfg.ttl <= 0
  \/ cfg.interval <= 0
  \/ ~cfg.builder

\* C35: NewService returns an error and no service exactly when the
\* connection configuration is invalid, TTL or RenewalInterval is not
\* positive or ClientBuilder is nil; otherwise it returns a service whose
\* destination is the one given, or a new in-memory one if none was given,
\* and that has no facade, no client and no readiness channel, closed or
\* not.
C35_NewServiceValidates ==
  NewServiceReturned =>
    /\ ns.err # "" <=> InvalidConfig(ns.cfg)
    /\ ns.err # "" => ns.svc = NoService
    /\ ns.err = "" =>
         /\ ns.svc.made
         /\ ns.svc.cfg.dest = (IF ns.cfg.dest = "nil" THEN "memory" ELSE "given")
         /\ ns.svc.facade = Nil
         /\ ns.svc.client = ""
         /\ ns.svc.initialized = 0
         /\ ~ns.svc.onceDone

\* A service was made from a configuration without a destination.
C35_Witness ==
  /\ NewServiceReturned
  /\ ns.err = ""
  /\ ns.cfg.dest = "nil"
  /\ ns.svc.made
  /\ ns.svc.cfg.dest = "memory"

\* --------------------------------------------------------------- C36
\* The Register requests sent by the step.
RegistersSent == {r \in reqs' \ reqs : r.kind = "Register"}

\* botIdentityFromToken has loaded the client state and may not go on.
ClientStateUnusable ==
  \/ boundKeypairState.load = "error"
  \/ boundKeypairState.load = "notfound" /\ ~joinSecret

\* C36: with the bound keypair method the join goes on with an empty client
\* state only after a load that reported NotFound with a registration
\* secret configured; after any other failed load, and after NotFound
\* without a secret, botIdentityFromToken returns an error and no identity
\* and sends no Register request.
C36_EmptyStateOnlyOnNotFoundWithSecret ==
  /\ [](/\ boundKeypairState.state = "empty" =>
             boundKeypairState.load = "notfound" /\ joinSecret
        /\ boundKeypairState.state = "loaded" => boundKeypairState.load = "ok"
        /\ ClientStateUnusable => boundKeypairState.state = "nil"
        /\ pc \in {"bft_register", "bft_post"} =>
             boundKeypairState.state # "nil")
  /\ [][/\ (pc = "bft_start" /\ ClientStateUnusable') =>
             /\ pc' = Head(stack)
             /\ err' # "" /\ retIdent' = Nil
             /\ reqs' = reqs
        /\ RegistersSent # {} =>
             /\ pc = "bft_register"
             /\ boundKeypairState.state # "nil"]_vars

\* A join went on with an empty client state and was registered.
C36_Witness ==
  /\ boundKeypairState = [state |-> "empty", load |-> "notfound"]
  /\ joinSecret
  /\ pc = "bft_post"
  /\ \E r \in reqs : r.kind = "Register"

\* --------------------------------------------------------------- C37
\* botIdentityFromToken returns from after a Register that succeeded.
ReturnsAfterRegister == pc = "bft_post" /\ pc' # pc

\* C37: with the bound keypair method, a botIdentityFromToken that returns
\* an identity has stored the updated client state, once, after the
\* Register that succeeded; when the update or the store fails it returns
\* an error and no identity; nothing but this writes the client state, so
\* a Register that fails leaves it as it was.
C37_ClientStateStoredAfterRegister ==
  [][/\ (ReturnsAfterRegister /\ err' = "") =>
          /\ retIdent' # Nil
          /\ boundKeypairState.state # "nil"
          /\ bkpState' = bkpState + 1
     /\ (ReturnsAfterRegister /\ err' \in {"bkp_update_err", "bkp_store_err"}) =>
          /\ retIdent' = Nil
          /\ history' = history
     /\ (ReturnsAfterRegister /\ err' = "bkp_update_err") =>
          bkpState' = bkpState
     /\ bkpState' # bkpState => ReturnsAfterRegister
     /\ (pc = "bft_register" /\ pc' # "bft_post" /\ pc' # pc) =>
          /\ err' = "register_err" /\ retIdent' = Nil
          /\ bkpState' = bkpState]_vars

\* A join with a loaded client state has returned an identity, the client
\* state having been stored for the second time.
C37_Witness ==
  /\ boundKeypairState = [state |-> "loaded", load |-> "ok"]
  /\ bkpState = 2
  /\ pc = "ri_ret"
  /\ retIdent # Nil /\ err = ""

\* --------------------------------------------------------------- C38
\* The service was given a readiness channel that is not closed.
DbNotReady == db.ch = "open"

\* C38: a service given a readiness channel pings no proxy, looks up no
\* route and issues no certificate while that channel is not closed; and a
\* cancellation of the context that finds it waiting on the open channel
\* makes it return the context error with none of them performed.
C38_TunnelWaitsForReadiness ==
  /\ [](/\ DbNotReady => db.ops = <<>>
        /\ db.ret = "ctx_err" => db.ops = <<>>
        /\ (db.pc = "returned" /\ DbNotReady) =>
             db.ret \in {"ctx_err", "listener_err"})
  /\ [][/\ db'.ops # db.ops => ~DbNotReady
        /\ (db.pc = "parked" /\ DbNotReady /\ ~db.ctx /\ db'.ctx) =>
             db'.wake = "ctx"
        /\ (db.pc \in {"select", "parked"} /\ db.ctx /\ db'.pc # db.pc
              /\ (DbNotReady \/ db.wake = "ctx")) =>
             db'.pc = "returned" /\ db'.ret = "ctx_err" /\ db'.ops = <<>>]_vars

\* The service was parked on an open channel, the context was cancelled,
\* then the channel was closed, and it returned the context error.
C38_Witness ==
  /\ db.pc = "returned"
  /\ db.wake = "ctx"
  /\ db.ch = "closed"
  /\ db.ret = "ctx_err"
  /\ db.ops = <<>>

\* --------------------------------------------------------------- C39
\* The calls of Write among the calls made so far.
WritesOf(a) == {i \in 1 .. Len(a.calls) : a.calls[i][1] = "Write"}

\* The step is a call of Write on a writer that is not initialised.
WriteUninitialized ==
  /\ ~age.initialized
  /\ Len(age'.calls) = Len(age.calls) + 1
  /\ age'.calls[Len(age'.calls)][1] = "Write"

\* C39: over any calls of Write and Close, age.Encrypt succeeds at most
\* once and is called only by a Write on a writer not yet initialised; a
\* writer on which Write was never called has never called it; and a
\* failed call leaves the writer uninitialised, so that the next Write
\* calls it again.
C39_AgeWriterLazyInit ==
  /\ [](/\ age.encryptOk <= 1
        /\ age.initialized <=> age.encryptOk = 1
        /\ age.initialized <=> age.w = "enc"
        /\ WritesOf(age) = {} => age.encryptCalls = 0)
  /\ [][/\ age'.encryptCalls # age.encryptCalls => WriteUninitialized
        /\ WriteUninitialized => age'.encryptCalls = age.encryptCalls + 1
        /\ (WriteUninitialized /\ age'.encryptOk = age.encryptOk) =>
             /\ ~age'.initialized
             /\ age'.w = "raw"
             /\ age'.calls[Len(age'.calls)][2] = "init_err"
        /\ age.initialized => age'.initialized]_vars

\* A first Write failed to initialise, a second one initialised and wrote,
\* a third one wrote without calling age.Encrypt, and the writer was closed.
C39_Witness ==
  /\ age.calls = <<<<"Write", "init_err">>, <<"Write", "ok">>,
                   <<"Write", "ok">>, <<"Close", "ok">>>>
  /\ age.encryptCalls = 2
  /\ age.encryptOk = 1
  /\ age.initialized

====
